---- MODULE Spec2Model ----
(***************************************************************************)
(* Model of the invoice parser's processing pipeline                       *)
(* (python-parser/src): InvoiceProcessor.process_invoice, the per-page     *)
(* pass of TableExtractor, OCRValidator and ResponseCompiler.              *)
(*                                                                         *)
(* Conventions.                                                            *)
(*  - Optional[str] fields hold a string; Python's None is the string      *)
(*    None (so that an f-string such as f"{series}_{number}" is modelled   *)
(*    as the concatenation Python performs).                               *)
(*  - Optional numeric fields (Decimal kept as str, or int) are <<>> for   *)
(*    None and <<v>> for the value v.  Money, weights and quantities are   *)
(*    integers counting thousandths (126.911 is 126911).                   *)
(*  - A page's raw text is represented by what the regular expressions of  *)
(*    the code find in it: its length, the "DDT interno" headers with      *)
(*    their offsets, the product-code occurrences with their offsets, the  *)
(*    footer matches (per field, in pattern order) and the continuation    *)
(*    data found in its first 1000 characters.                             *)
(***************************************************************************)
EXTENDS Integers, Sequences, FiniteSets, TLC

VARIABLES
    pc,                 \* position inside process_invoice / the function under test
    config,             \* ProcessingConfig
    pdf,                \* the input document as seen by the PDF layer
    bill_data,          \* BillData returned by the metadata step (<<>> = None)
    page_numbers,       \* page indices to process
    page_data_list,     \* PageData per processed page
    validation_results, \* ValidationResult per validated page
    result,             \* ExtractionResult built by compile_final_result
    response            \* dictionary returned by process_invoice

vars == <<pc, config, pdf, bill_data, page_numbers, page_data_list,
          validation_results, result, response>>

-----------------------------------------------------------------------------
(* Bounds *)

MaxPages == 2

-----------------------------------------------------------------------------
(* Python values *)

None == "None"

NoNum == <<>>

Num(v) == <<v>>

IsSet(o) == o # <<>>

\* truthiness of a parsed Decimal or an int: None and zero are falsy
Truthy(o) == o # <<>> /\ o[1] # 0

\* truthiness of an Optional[str]
StrTruthy(s) == s # None /\ s # ""

Abs(x) == IF x < 0 THEN 0 - x ELSE x

SeqToSet(s) == {s[i] : i \in 1..Len(s)}

RECURSIVE Flatten(_)
Flatten(ss) == IF ss = <<>> THEN <<>> ELSE Head(ss) \o Flatten(Tail(ss))

\* smallest element of a non-empty set of integers
Min(S) == CHOOSE x \in S : \A y \in S : x <= y

-----------------------------------------------------------------------------
(* Data model: models/invoice_models.py *)

ProductData(code, q, u, t) ==
    [pid |-> <<>>, product_code |-> code, quantity |-> q,
     unit_price |-> u, total_price |-> t]

DeliveryData(series, number, model, pname) ==
    [ddt_series |-> series, ddt_number |-> number, model_number |-> model,
     product_name |-> pname, products |-> <<>>]

BillData ==
    [total_amount |-> NoNum, package_count |-> NoNum, net_weight_kg |-> NoNum,
     gross_weight_kg |-> NoNum, shipping_term |-> None]

PageData(n, text) ==
    [page_number |-> n, raw_text |-> text, products |-> <<>>,
     delivery_info |-> <<>>, all_deliveries |-> <<>>, errors |-> <<>>]

ExtractionResult(bill) ==
    [success |-> TRUE, bill_data |-> bill, delivery_data |-> <<>>,
     products |-> <<>>, validation_checksum_ok |-> FALSE,
     parsing_errors |-> <<>>, message |-> ""]

\* an entry of an error list: the text of the message and the page it names
Err(kind, page) == [kind |-> kind, page |-> page]

-----------------------------------------------------------------------------
(* Raw text, as the regular expressions see it *)

NoFooter == [total |-> <<>>, porto |-> <<>>, colli |-> <<>>, net |-> <<>>, gross |-> <<>>]

NoCompletion == [model_number |-> None, product_name |-> None]

Text(len, ddts, codes, footer, completion) ==
    [len |-> len, ddts |-> ddts, codes |-> codes, footer |-> footer,
     completion |-> completion]

EmptyText == Text(0, <<>>, <<>>, NoFooter, NoCompletion)

Ddt(pos, series, number, model, pname) ==
    [pos |-> pos, series |-> series, number |-> number, model_number |-> model,
     product_name |-> pname]

Code(pos, code) == [pos |-> pos, code |-> code]

-----------------------------------------------------------------------------
(* TableExtractor: delivery segmentation and product association *)

\* a key that also reads the model number
DdtKeyWithModel(d) == d.ddt_series \o "_" \o d.ddt_number \o "_" \o d.model_number

DdtKey(d) == d.ddt_series \o "_" \o d.ddt_number

\* keep the first delivery of every key (the set `seen_ddts` of the loop)
RECURSIVE UniqueByKey(_, _)
UniqueByKey(ds, seen) ==
    IF ds = <<>> THEN <<>>
    ELSE IF DdtKey(Head(ds)) \in seen THEN UniqueByKey(Tail(ds), seen)
    ELSE <<Head(ds)>> \o UniqueByKey(Tail(ds), seen \cup {DdtKey(Head(ds))})

ExtractAllDeliveriesFromPage(text) ==
    IF text.len = 0 THEN <<>>
    ELSE UniqueByKey(
           [i \in 1..Len(text.ddts) |->
               DeliveryData(text.ddts[i].series, text.ddts[i].number,
                            text.ddts[i].model_number, text.ddts[i].product_name)],
           {})

FindDeliveryPositionsInText(text, deliveries) ==
    [i \in 1..Len(deliveries) |->
        LET full == {t.pos : t \in {u \in SeqToSet(text.ddts) :
                        u.series = deliveries[i].ddt_series
                        /\ u.number = deliveries[i].ddt_number}}
            byNumber == {t.pos : t \in {u \in SeqToSet(text.ddts) :
                        u.number = deliveries[i].ddt_number}}
        IN  IF full # {} THEN Min(full)
            ELSE IF byNumber # {} THEN Min(byNumber)
            ELSE 0]

FindProductPositionsInText(text, products) ==
    [i \in 1..Len(products) |->
        LET occ == {t.pos : t \in {u \in SeqToSet(text.codes) :
                        u.code = products[i].product_code}}
        IN  IF occ # {} THEN Min(occ) ELSE text.len]

\* the loop of _find_closest_preceding_delivery from index i on; best = 0 is
\* Python's None (best_distance is then infinite)
RECURSIVE ClosestLoop(_, _, _, _, _)
ClosestLoop(product_position, delivery_positions, i, best, best_distance) ==
    IF i > Len(delivery_positions) THEN best
    ELSE IF delivery_positions[i] <= product_position
            /\ (best = 0 \/ product_position - delivery_positions[i] < best_distance)
         THEN ClosestLoop(product_position, delivery_positions, i + 1, i,
                          product_position - delivery_positions[i])
         ELSE ClosestLoop(product_position, delivery_positions, i + 1, best,
                          best_distance)

\* the first delivery of the list that precedes the product
FirstPrecedingDelivery(product_position, delivery_positions) ==
    LET before == {i \in 1..Len(delivery_positions) :
                      delivery_positions[i] <= product_position}
    IN  IF before = {} THEN 0 ELSE Min(before)

\* index of the chosen delivery, 0 when none precedes the product
FindClosestPrecedingDelivery(product_position, delivery_positions) ==
    ClosestLoop(product_position, delivery_positions, 1, 0, 0)

\* the owners without the fallback: an item no delivery precedes has owner 0
OwnersWithoutFallback(text, products, deliveries) ==
    LET dpos == FindDeliveryPositionsInText(text, deliveries)
        ppos == FindProductPositionsInText(text, products)
    IN  [i \in 1..Len(products) |-> FindClosestPrecedingDelivery(ppos[i], dpos)]

\* the delivery index every product of the page is appended to
ProductOwners(text, products, deliveries) ==
    LET dpos == FindDeliveryPositionsInText(text, deliveries)
        ppos == FindProductPositionsInText(text, products)
    IN  [i \in 1..Len(products) |->
            LET best == FindClosestPrecedingDelivery(ppos[i], dpos)
            IN  IF best # 0 THEN best ELSE 1]

\* subsequence of s at the indices that satisfy Keep
RECURSIVE SelectIdx(_, _, _)
SelectIdx(s, i, keep) ==
    IF i > Len(s) THEN <<>>
    ELSE (IF keep[i] THEN <<s[i]>> ELSE <<>>) \o SelectIdx(s, i + 1, keep)

AssociateProductsWithDeliveries(page) ==
    IF page.all_deliveries = <<>> \/ page.products = <<>> THEN page
    ELSE IF Len(page.all_deliveries) = 1
         THEN [page EXCEPT !.all_deliveries[1].products = page.products]
         ELSE LET owner == ProductOwners(page.raw_text, page.products,
                                         page.all_deliveries)
              IN  [page EXCEPT !.all_deliveries =
                     [j \in 1..Len(page.all_deliveries) |->
                        [page.all_deliveries[j] EXCEPT !.products =
                            SelectIdx(page.products, 1,
                                      [i \in 1..Len(page.products) |-> owner[i] = j])]]]

\* delivery_info is the same object as all_deliveries[0]
WithDeliveryInfo(page) ==
    [page EXCEPT !.delivery_info =
        IF page.all_deliveries = <<>> THEN <<>> ELSE <<page.all_deliveries[1]>>]

\* extract_page_data: `tables` is the product list the grids of the page yield,
\* `raise` the step whose exception ends the try block ("none": no exception)
ExtractPageData(page_number, text, tables, raise) ==
    LET p1 == PageData(page_number, text)
        p2 == WithDeliveryInfo([p1 EXCEPT !.all_deliveries =
                                    ExtractAllDeliveriesFromPage(text)])
        p3 == [p2 EXCEPT !.products =
                  [i \in 1..Len(tables) |->
                      [tables[i] EXCEPT !.pid = <<page_number, i>>]]]
        failed(p) == [p EXCEPT !.errors = <<Err("Error processing page", page_number)>>]
    IN  CASE raise = "deliveries" -> failed(p1)
          [] raise = "products"   -> failed(p2)
          [] raise = "associate"  -> failed(p3)
          [] OTHER -> WithDeliveryInfo(AssociateProductsWithDeliveries(p3))

-----------------------------------------------------------------------------
(* OCRValidator (validators/ocr_validator.py) *)

VErr(kind, product) == [kind |-> kind, product |-> product]

\* _validate_numeric_field: a non-empty string that parses to a value >= 0
ValidateNumericField(o) == IsSet(o) /\ o[1] >= 0

\* _validate_price_calculation: "" when the check passes.  quantity * unit_price
\* counts millionths; the tolerance is max(0.01, 0.001 * total_price)
ValidatePriceCalculation(p) ==
    IF ~(Truthy(p.quantity) /\ Truthy(p.unit_price) /\ Truthy(p.total_price))
    THEN "Cannot parse pricing fields for calculation"
    ELSE LET calculated == p.quantity[1] * p.unit_price[1]
             difference == Abs(calculated - p.total_price[1] * 1000)
             tolerance  == IF p.total_price[1] > 10000 THEN p.total_price[1] ELSE 10000
         IN  IF difference > tolerance THEN "Price calculation mismatch" ELSE ""

\* the error _validate_products_consistency records for product i ("" when none)
ConsistencyError(p) ==
    IF ~(ValidateNumericField(p.quantity) /\ ValidateNumericField(p.unit_price)
         /\ ValidateNumericField(p.total_price))
    THEN "Invalid numeric fields"
    ELSE IF IsSet(p.quantity) /\ IsSet(p.unit_price) /\ IsSet(p.total_price)
         THEN ValidatePriceCalculation(p)
         ELSE "Missing critical pricing fields"

RECURSIVE ConsistencyErrors(_, _)
ConsistencyErrors(products, i) ==
    IF i > Len(products) THEN <<>>
    ELSE (IF ConsistencyError(products[i]) = "" THEN <<>>
          ELSE <<VErr(ConsistencyError(products[i]), i)>>)
         \o ConsistencyErrors(products, i + 1)

ValidateProductsConsistency(products) ==
    LET valid == Cardinality({i \in 1..Len(products) : ConsistencyError(products[i]) = ""})
    IN  [errors |-> ConsistencyErrors(products, 1),
         valid_products |-> valid, total_products |-> Len(products)]

CodeInText(text, code) == \E t \in SeqToSet(text.codes) : t.code = code

RECURSIVE TextErrors(_, _, _)
TextErrors(products, text, i) ==
    IF i > Len(products) THEN <<>>
    ELSE (IF StrTruthy(products[i].product_code)
             /\ ~CodeInText(text, products[i].product_code)
          THEN <<VErr("not found in raw text", i)>> ELSE <<>>)
         \o TextErrors(products, text, i + 1)

CrossReferenceWithText(products, text) ==
    IF text.len = 0
    THEN [errors |-> <<VErr("No raw text available for cross-referencing", 0)>>,
          found_products |-> 0, total_products |-> 0]
    ELSE [errors |-> TextErrors(products, text, 1),
          found_products |-> Cardinality({i \in 1..Len(products) :
                                StrTruthy(products[i].product_code)
                                /\ CodeInText(text, products[i].product_code)}),
          total_products |-> Len(products)]

\* round(x, 3) of x = num / (1000 * den), in thousandths; a tie goes to the
\* even neighbour
RoundThousandths(num, den) ==
    LET q == num \div den
        r == num % den
    IN  IF 2 * r > den \/ (2 * r = den /\ q % 2 = 1) THEN q + 1 ELSE q

\* a score that leaves the errors unpenalised
UnpenalisedScore(pv, tv) ==
    LET dp == IF pv.total_products > 0 THEN pv.total_products ELSE 1
        dt == IF tv.total_products > 0 THEN tv.total_products ELSE 1
    IN  RoundThousandths(600 * pv.valid_products * dt + 400 * tv.found_products * dp,
                         dp * dt)

\* _calculate_confidence_score, in thousandths.  The two scores are the
\* fractions valid/total and found/total (0 when the list is empty); the sum
\* is kept exact over the common denominator until the final round(, 3)
CalculateConfidenceScore(pv, tv) ==
    LET dp == IF pv.total_products > 0 THEN pv.total_products ELSE 1
        dt == IF tv.total_products > 0 THEN tv.total_products ELSE 1
        overall     == 600 * pv.valid_products * dt + 400 * tv.found_products * dp
        error_count == Len(pv.errors) + Len(tv.errors)
        penalty     == IF 200 * error_count < 500 THEN 200 * error_count ELSE 500
        penalised   == IF error_count > 0
                       THEN (IF overall - penalty * dp * dt > 0
                             THEN overall - penalty * dp * dt ELSE 0)
                       ELSE overall
    IN  RoundThousandths(penalised, dp * dt)

\* "Product {index}" occurs in the message written for product k
ProductLabelIn(index, k) == k = index \/ k \div 10 = index \/ k \div 100 = index

\* _attempt_product_correction: a copy, its total recomputed on a mismatch
AttemptProductCorrection(p, index, errors) ==
    LET relevant == \E e \in SeqToSet(errors) :
                        /\ e.kind = "Price calculation mismatch"
                        /\ ProductLabelIn(index, e.product)
    IN  IF relevant /\ Truthy(p.quantity) /\ Truthy(p.unit_price)
        THEN [p EXCEPT !.total_price = Num((p.quantity[1] * p.unit_price[1]) \div 1000)]
        ELSE p

GenerateCorrections(products, errors) ==
    [corrected_products |->
        [i \in 1..Len(products) |-> AttemptProductCorrection(products[i], i, errors)]]

\* valid whenever the score reaches the threshold
IsValidByScoreAlone(score, errors, cfg) == score >= cfg.ocr_confidence_threshold

\* lines 46-49
IsValid(score, errors, cfg) ==
    score >= cfg.ocr_confidence_threshold /\ Len(errors) = 0

ValidatePageData(page, cfg) ==
    IF ~cfg.enable_ocr_validation
    THEN [page_number |-> page.page_number, is_valid |-> TRUE,
          confidence_score |-> 800, validation_errors |-> <<>>,
          corrected_data |-> <<>>]
    ELSE LET pv == ValidateProductsConsistency(page.products)
             tv == CrossReferenceWithText(page.products, page.raw_text)
             errors == pv.errors \o tv.errors
             score == CalculateConfidenceScore(pv, tv)
             valid == IsValid(score, errors, cfg)
         IN  [page_number |-> page.page_number, is_valid |-> valid,
              confidence_score |-> score, validation_errors |-> errors,
              corrected_data |->
                 IF valid THEN <<>> ELSE <<GenerateCorrections(page.products, errors)>>]

-----------------------------------------------------------------------------
(* ResponseCompiler (extractors/response_compiler.py) *)

\* the deliveries one page contributes (lines 73-88)
PageDeliveries(page) ==
    IF page.all_deliveries = <<>> /\ page.delivery_info # <<>>
    THEN <<[page.delivery_info[1] EXCEPT !.products = page.products]>>
    ELSE page.all_deliveries

Incomplete(d) ==
    /\ StrTruthy(d.ddt_series) /\ StrTruthy(d.ddt_number)
    /\ (~StrTruthy(d.model_number) \/ ~StrTruthy(d.product_name))

\* _extract_delivery_completion: fields found in the head of the page text
ExtractDeliveryCompletion(text) ==
    IF text.len = 0 THEN NoCompletion ELSE text.completion

HasCompletion(text) == ExtractDeliveryCompletion(text) # NoCompletion

\* index of the first page after `source` (at most two further) with completion
\* data, 0 when there is none
RECURSIVE CompletionSearch(_, _, _)
CompletionSearch(pages, i, source_page) ==
    IF i > Len(pages) THEN 0
    ELSE IF pages[i].page_number <= source_page
         THEN CompletionSearch(pages, i + 1, source_page)
    ELSE IF pages[i].page_number > source_page + 2 THEN 0
    ELSE IF HasCompletion(pages[i].raw_text) THEN i
    ELSE CompletionSearch(pages, i + 1, source_page)

MergeCompletion(d, c) ==
    [d EXCEPT !.model_number = IF StrTruthy(c.model_number) THEN c.model_number ELSE @,
              !.product_name = IF StrTruthy(c.product_name) THEN c.product_name ELSE @]

\* one iteration of the loop over incomplete deliveries.  heap[p] holds the
\* current value of the delivery objects of page p; ref = <<p, j>> names one
CompleteDelivery(heap, pages, ref) ==
    LET d == heap[ref[1]][ref[2]]
        holders == {q \in 1..Len(pages) :
                      pages[q].all_deliveries # <<>> /\ d \in SeqToSet(heap[q])}
    IN  IF holders = {} THEN heap
        ELSE LET found == CompletionSearch(pages, 1, pages[Min(holders)].page_number)
             IN  IF found = 0 THEN heap
                 ELSE [heap EXCEPT ![ref[1]][ref[2]] =
                         MergeCompletion(d, ExtractDeliveryCompletion(pages[found].raw_text))]

RECURSIVE CompleteAll(_, _, _)
CompleteAll(heap, pages, refs) ==
    IF refs = <<>> THEN heap
    ELSE CompleteAll(CompleteDelivery(heap, pages, Head(refs)), pages, Tail(refs))

\* _merge_cross_page_deliveries over the deliveries named by refs: the complete
\* ones first, then the incomplete ones after their completion attempt
MergeCrossPageDeliveries(heap, pages, refs) ==
    LET isInc(r) == Incomplete(heap[r[1]][r[2]])
        complete == SelectSeq(refs, LAMBDA r : ~isInc(r))
        incomplete == SelectSeq(refs, isInc)
        after == CompleteAll(heap, pages, incomplete)
        order == complete \o incomplete
    IN  [i \in 1..Len(order) |-> after[order[i][1]][order[i][2]]]

\* lines 105-120: the first delivery of each key stays, later ones give it
\* their products
RECURSIVE RemoveDuplicates(_, _)
RemoveDuplicates(deliveries, unique) ==
    IF deliveries = <<>> THEN unique
    ELSE LET d == Head(deliveries)
             same == {i \in 1..Len(unique) : DdtKey(unique[i]) = DdtKey(d)}
         IN  IF same = {}
             THEN RemoveDuplicates(Tail(deliveries), Append(unique, d))
             ELSE RemoveDuplicates(Tail(deliveries),
                    [unique EXCEPT ![Min(same)].products = @ \o d.products])

\* the unassigned delivery built from the last page alone
MinimalDeliveryOfLastPage(pages) ==
    [DeliveryData(None, None, None, None) EXCEPT !.products =
        IF pages = <<>> THEN <<>> ELSE pages[Len(pages)].products]

\* lines 91-100: the delivery created when no page has one
MinimalDelivery(pages) ==
    [DeliveryData(None, None, None, None) EXCEPT !.products =
        Flatten([p \in 1..Len(pages) |-> pages[p].products])]

CompileDeliveryData(pages) ==
    LET heap == [p \in 1..Len(pages) |-> PageDeliveries(pages[p])]
        refs == Flatten([p \in 1..Len(pages) |->
                            [j \in 1..Len(heap[p]) |-> <<p, j>>]])
        merged == IF refs = <<>>
                  THEN <<MinimalDelivery(pages)>>
                  ELSE MergeCrossPageDeliveries(heap, pages, refs)
    IN  RemoveDuplicates(merged, <<>>)

CompileProducts(pages, vals) ==
    Flatten([i \in 1..Len(pages) |->
        IF i <= Len(vals) /\ ~vals[i].is_valid /\ vals[i].corrected_data # <<>>
        THEN vals[i].corrected_data[1].corrected_products
        ELSE pages[i].products])

RECURSIVE CalculatedTotal(_)
CalculatedTotal(products) ==
    IF products = <<>> THEN 0
    ELSE (IF Truthy(Head(products).total_price) THEN Head(products).total_price[1] ELSE 0)
         + CalculatedTotal(Tail(products))

\* a tolerance of a tenth of a cent
WithinTenthOfCent(difference) == difference <= 1

\* lines 304-306: tolerance = Decimal('0.01'), one cent
WithinTolerance(difference) == difference <= 10

\* _perform_final_validations
PerformFinalValidations(r, cfg) ==
    IF ~cfg.validate_checksums THEN r
    ELSE IF r.bill_data # <<>> /\ IsSet(r.bill_data[1].total_amount)
    THEN LET stated_total == r.bill_data[1].total_amount
             difference == Abs(stated_total[1] - CalculatedTotal(r.products))
         IN  IF ~Truthy(stated_total)
             THEN [r EXCEPT !.parsing_errors =
                     Append(@, Err("Could not parse stated total amount for checksum validation", -1))]
             ELSE IF WithinTolerance(difference)
             THEN [r EXCEPT !.validation_checksum_ok = TRUE]
             ELSE [r EXCEPT !.parsing_errors = Append(@, Err("Checksum Mismatch", -1))]
    ELSE [r EXCEPT !.parsing_errors =
             Append(@, Err("No total amount found for checksum validation", -1))]

\* first candidate whose parsed value is truthy (the loop over the patterns of
\* one field, which breaks on the first value it accepts); <<>> when none
RECURSIVE FirstAccepted(_)
FirstAccepted(candidates) ==
    IF candidates = <<>> THEN <<>>
    ELSE IF Head(candidates) # 0 THEN <<Head(candidates)>>
    ELSE FirstAccepted(Tail(candidates))

\* the body of the loop of _extract_footer_information for one page
FooterFromPage(b, page) ==
    IF page.raw_text.len = 0 THEN b
    ELSE LET f == page.raw_text.footer
         IN  [b EXCEPT
                !.total_amount =
                    IF ~IsSet(@) /\ FirstAccepted(f.total) # <<>>
                    THEN FirstAccepted(f.total) ELSE @,
                !.shipping_term =
                    IF ~StrTruthy(@) /\ f.porto # <<>> THEN Head(f.porto) ELSE @,
                !.package_count =
                    IF ~Truthy(@) /\ f.colli # <<>> THEN Num(Head(f.colli)) ELSE @,
                !.net_weight_kg =
                    IF ~IsSet(@) /\ FirstAccepted(f.net) # <<>>
                    THEN FirstAccepted(f.net) ELSE @,
                !.gross_weight_kg =
                    IF ~IsSet(@) /\ FirstAccepted(f.gross) # <<>>
                    THEN FirstAccepted(f.gross) ELSE @]

RECURSIVE FooterScan(_, _)
FooterScan(b, pages) ==
    IF pages = <<>> THEN b
    ELSE FooterScan(FooterFromPage(b, Head(pages)), Tail(pages))

\* pages_to_search, in the order the loop visits them (last page first)
PagesToSearch(pages) ==
    IF Len(pages) >= 2 THEN <<pages[Len(pages)], pages[Len(pages) - 1]>>
    ELSE pages

\* reading a field of bill_data = None raises AttributeError
FooterRaises(r, pages) ==
    r.bill_data = <<>> /\ \E p \in SeqToSet(PagesToSearch(pages)) : p.raw_text.len # 0

ExtractFooterInformation(r, pages) ==
    IF pages = <<>> \/ r.bill_data = <<>> THEN r
    ELSE [r EXCEPT !.bill_data = <<FooterScan(r.bill_data[1], PagesToSearch(pages))>>]

GenerateFinalMessage(r, vals) ==
    IF ~r.success
    THEN "Invoice parsing failed with errors. Check parsing_errors field for details."
    ELSE IF r.parsing_errors # <<>>
    THEN "Invoice parsing completed with warnings. Check parsing_errors field for details."
    ELSE IF ~r.validation_checksum_ok
    THEN "Invoice parsing completed but checksum validation failed."
    ELSE IF \E v \in SeqToSet(vals) : ~v.is_valid
    THEN "Invoice parsing completed but pages failed OCR validation."
    ELSE "Invoice parsing completed successfully."

\* success decided before the checksum entry is looked at
SuccessRegardless(r) == TRUE

\* line 53
SuccessStatus(r) == Len(r.parsing_errors) = 0

CompileFinalResult(bill, pages, vals, cfg) ==
    LET r1 == [ExtractionResult(bill) EXCEPT
                  !.delivery_data = CompileDeliveryData(pages),
                  !.products = CompileProducts(pages, vals)]
        r2 == PerformFinalValidations(r1, cfg)
    IN  IF FooterRaises(r2, pages)
        THEN [r2 EXCEPT
                !.parsing_errors = Append(@, Err("Error compiling final result", -1)),
                !.success = FALSE,
                !.message = "Compilation failed with errors"]
        ELSE LET r3 == ExtractFooterInformation(r2, pages)
                 r4 == [r3 EXCEPT !.success = SuccessStatus(r3)]
             IN  [r4 EXCEPT !.message = GenerateFinalMessage(r4, vals)]

ConvertToLaravelFormat(r) ==
    [success |-> r.success,
     data |-> [bill |-> r.bill_data,
               deliveries |-> r.delivery_data,
               extraction_method |-> "camelot+pdfminer",
               validation_checksum_ok |-> r.validation_checksum_ok,
               parsing_errors |-> r.parsing_errors],
     message |-> r.message]

-----------------------------------------------------------------------------
(* InvoiceProcessor and MetadataExtractor *)

\* an error response that repeats its message
ErrorResponseRepeated(error_message) ==
    [success |-> FALSE,
     data |-> [bill |-> <<>>, delivery |-> <<>>, products |-> <<>>,
               extraction_method |-> "failed",
               validation_checksum_ok |-> FALSE,
               parsing_errors |-> <<Err(error_message, -1), Err(error_message, -1)>>],
     message |-> "Invoice processing failed"]

CreateErrorResponse(error_message) ==
    [success |-> FALSE,
     data |-> [bill |-> <<>>, delivery |-> <<>>, products |-> <<>>,
               extraction_method |-> "failed",
               validation_checksum_ok |-> FALSE,
               parsing_errors |-> <<Err(error_message, -1)>>],
     message |-> "Invoice processing failed"]

\* _extract_missing_from_filename: fn holds what each pattern yields on the name
ExtractMissingFromFilename(fn, b) ==
    [b EXCEPT
        !.total_amount    = IF ~IsSet(@) /\ Truthy(fn.total) THEN fn.total ELSE @,
        !.package_count   = IF ~Truthy(@) /\ Truthy(fn.colli) THEN fn.colli ELSE @,
        !.net_weight_kg   = IF ~IsSet(@) /\ Truthy(fn.net) THEN fn.net ELSE @,
        !.gross_weight_kg = IF ~IsSet(@) /\ Truthy(fn.gross) THEN fn.gross ELSE @]

\* extract_general_metadata, for the fields the compiler reads
ExtractGeneralMetadata(doc) ==
    IF doc.page_count = 0 THEN BillData
    ELSE ExtractMissingFromFilename(doc.filename, BillData)

-----------------------------------------------------------------------------
(* Inputs of the pipeline: documents of the vendor's layout *)

P1 == ProductData("MMA001", Num(1000), Num(126911), Num(126911))

P2 == ProductData("MMA002", Num(1000), Num(87842), Num(87842))

P3 == ProductData("MMA003", Num(1000), Num(16238), Num(16238))

P4 == ProductData("MMA004", Num(1000), Num(16616), Num(16616))

P5 == ProductData("MMA005", Num(1000), Num(2907), Num(2907))

\* quantity 2 at 1.500 printed with a total of 3.500
PBad == ProductData("MMA009", Num(2000), Num(1500), Num(3500))

\* what the grids of one page yield
PageTables == { <<>>, <<P1>>, <<P1, PBad>>, <<P1, P2, P3, P4, P5>> }

CodeOccurrences ==
    <<Code(300, "MMA001"), Code(400, "MMA002"), Code(500, "MMA003"),
      Code(600, "MMA004"), Code(950, "MMA009")>>

FooterOfDocument ==
    [total |-> <<250510>>, porto |-> <<"FRANCO">>, colli |-> <<46>>,
     net |-> <<297500>>, gross |-> <<328000>>]

\* a continuation page: no delivery header, the footer of the document
TPlain ==
    Text(1000, <<>>, CodeOccurrences, FooterOfDocument,
         [model_number |-> "MMM25.29", product_name |-> "CAMICIA"])

\* one complete delivery header
TOne ==
    Text(1000, <<Ddt(50, "MS5LH0002", "3635", "MMM25.22", "GIACCA")>>,
         CodeOccurrences, NoFooter, NoCompletion)

\* two delivery headers, the first one cut by the page break and printed twice
TTwo ==
    Text(1000, <<Ddt(50, "MS5LH0002", "3635", None, None),
                 Ddt(900, "MS5LH0002", "3636", "MMM25.23", "GONNA"),
                 Ddt(960, "MS5LH0002", "3635", None, None)>>,
         CodeOccurrences, NoFooter, NoCompletion)

PageTexts == { EmptyText, TPlain, TOne, TTwo }

\* what the patterns of _extract_missing_from_filename yield on the file name
FileName(total, colli, net, gross) ==
    [total |-> total, colli |-> colli, net |-> net, gross |-> gross]

FileNames ==
    { FileName(NoNum, NoNum, NoNum, NoNum),
      FileName(Num(250510), Num(46), NoNum, NoNum),
      FileName(Num(260000), NoNum, Num(297500), Num(328000)),
      FileName(Num(0), Num(0), NoNum, NoNum) }

Configs ==
    [enable_ocr_validation : BOOLEAN, ocr_confidence_threshold : {800},
     validate_checksums : BOOLEAN, max_pages_to_process : {NoNum, Num(1)}]

\* the outcomes of extract_page_data the model draws for a page: the page
\* content, and the step of the try block that raises (if any)
PageInputs ==
    [text : PageTexts, tables : PageTables, raise : {"none"}]
    \cup [text : {TOne}, tables : {<<>>}, raise : {"deliveries"}]
    \cup [text : {TPlain, TTwo}, tables : {<<>>}, raise : {"products"}]
    \cup [text : {TOne, TTwo}, tables : {<<P1, PBad>>}, raise : {"associate"}]

-----------------------------------------------------------------------------
(* process_invoice (invoice_processor.py lines 26-84) *)

Init ==
    /\ pc = "start"
    /\ config \in Configs
    /\ pdf = <<>>
    /\ bill_data = <<>>
    /\ page_numbers = <<>>
    /\ page_data_list = <<>>
    /\ validation_results = <<>>
    /\ result = <<>>
    /\ response = <<>>

\* Step 0: validate_pdf_file
ValidatePdf ==
    /\ pc = "start"
    /\ \/ /\ \E n \in 0..MaxPages, fn \in FileNames :
                pdf' = [page_count |-> n, filename |-> fn]
          /\ pc' = "metadata"
          /\ UNCHANGED response
       \/ /\ response' = CreateErrorResponse("Invalid or unreadable PDF file")
          /\ pc' = "done"
          /\ UNCHANGED pdf
    /\ UNCHANGED <<config, bill_data, page_numbers, page_data_list,
                   validation_results, result>>

\* Step 1: extract_general_metadata
ExtractMetadata ==
    /\ pc = "metadata"
    /\ bill_data' = <<ExtractGeneralMetadata(pdf)>>
    /\ pc' = "split"
    /\ UNCHANGED <<config, pdf, page_numbers, page_data_list,
                   validation_results, result, response>>

\* Step 2, lines 44-51: split_pdf_into_pages and the max-pages limit
SplitPages ==
    /\ pc = "split"
    /\ IF pdf.page_count = 0
       THEN /\ response' = CreateErrorResponse("Could not determine PDF page structure")
            /\ pc' = "done"
            /\ UNCHANGED page_numbers
       ELSE /\ page_numbers' =
                 LET all == [i \in 1..pdf.page_count |-> i - 1]
                 IN  IF Truthy(config.max_pages_to_process)
                     THEN SubSeq(all, 1, IF config.max_pages_to_process[1] < Len(all)
                                         THEN config.max_pages_to_process[1] ELSE Len(all))
                     ELSE all
            /\ pc' = "pages"
            /\ UNCHANGED response
    /\ UNCHANGED <<config, pdf, bill_data, page_data_list, validation_results, result>>

\* Step 2, lines 53-57: one iteration of the page loop
ExtractPage ==
    /\ pc = "pages"
    /\ Len(page_data_list) < Len(page_numbers)
    /\ \E inp \in PageInputs :
          page_data_list' = Append(page_data_list,
              ExtractPageData(page_numbers[Len(page_data_list) + 1],
                              inp.text, inp.tables, inp.raise))
    /\ UNCHANGED <<pc, config, pdf, bill_data, page_numbers, validation_results,
                   result, response>>

\* Step 3, lines 61-67: the validation loop
ValidatePages ==
    /\ pc = "pages"
    /\ Len(page_data_list) = Len(page_numbers)
    /\ validation_results' =
          [i \in 1..Len(page_data_list) |-> ValidatePageData(page_data_list[i], config)]
    /\ pc' = "compile"
    /\ UNCHANGED <<config, pdf, bill_data, page_numbers, page_data_list,
                   result, response>>

\* Step 4, lines 71-73
Compile ==
    /\ pc = "compile"
    /\ result' = CompileFinalResult(bill_data, page_data_list, validation_results, config)
    /\ pc' = "convert"
    /\ UNCHANGED <<config, pdf, bill_data, page_numbers, page_data_list,
                   validation_results, response>>

\* lines 76-79
Convert ==
    /\ pc = "convert"
    /\ response' = ConvertToLaravelFormat(result)
    /\ pc' = "done"
    /\ UNCHANGED <<config, pdf, bill_data, page_numbers, page_data_list,
                   validation_results, result>>

\* lines 81-84: an exception escapes the step that is running
UnhandledException ==
    /\ pc \in {"metadata", "split", "pages", "compile", "convert"}
    /\ response' = CreateErrorResponse("Unhandled error during invoice processing")
    /\ pc' = "done"
    /\ UNCHANGED <<config, pdf, bill_data, page_numbers, page_data_list,
                   validation_results, result>>

Next ==
    \/ ValidatePdf
    \/ ExtractMetadata
    \/ SplitPages
    \/ ExtractPage
    \/ ValidatePages
    \/ Compile
    \/ Convert
    \/ UnhandledException

Spec == Init /\ [][Next]_vars

-----------------------------------------------------------------------------
(* compile_final_result called on its own: the arguments are drawn from the  *)
(* pages extract_page_data produces, the header from the metadata step or    *)
(* None (ExtractionResult.bill_data is Optional, line 300 tests for it)      *)

PageLists ==
    UNION {{[i \in 1..n |-> ExtractPageData(i - 1, f[i].text, f[i].tables, f[i].raise)] :
              f \in [1..n -> PageInputs]} : n \in 0..MaxPages}

InitCompile ==
    /\ pc = "compile_start"
    /\ config \in Configs
    /\ pdf = <<>>
    /\ bill_data \in {<<>>} \cup {<<ExtractMissingFromFilename(fn, BillData)>> : fn \in FileNames}
    /\ page_data_list \in PageLists
    /\ page_numbers = [i \in 1..Len(page_data_list) |-> i - 1]
    /\ validation_results =
          [i \in 1..Len(page_data_list) |-> ValidatePageData(page_data_list[i], config)]
    /\ result = <<>>
    /\ response = <<>>

CompileDirect ==
    /\ pc = "compile_start"
    /\ result' = CompileFinalResult(bill_data, page_data_list, validation_results, config)
    /\ pc' = "compile_done"
    /\ UNCHANGED <<config, pdf, bill_data, page_numbers, page_data_list,
                   validation_results, response>>

NextCompile == CompileDirect

SpecCompile == InitCompile /\ [][NextCompile]_vars

-----------------------------------------------------------------------------
(* Properties *)

\* compile_final_result has returned
Compiled == result # <<>>

NoPageError == \A i \in 1..Len(page_data_list) : page_data_list[i].errors = <<>>

\* the declared grand total in the header when compilation starts
DeclaredTotal == bill_data[1].total_amount

\* places (group, index) at which the line item pid is owned in the result
Owners(pid) ==
    {gk \in UNION {{<<g, k>> : k \in 1..Len(result.delivery_data[g].products)} :
                      g \in 1..Len(result.delivery_data)} :
        result.delivery_data[gk[1]].products[gk[2]].pid = pid}

\* C1: with checksum validation enabled, a checksum mismatch (declared grand
\* total and sum of line totals more than 0.01 apart) is only a warning: when
\* no fatal and no page-local error occurred the compiled result has
\* success = true.
C1_ChecksumMismatchIsWarning ==
    ( /\ Compiled
      /\ config.validate_checksums
      /\ bill_data # <<>> /\ Truthy(DeclaredTotal)
      /\ Abs(DeclaredTotal[1] - CalculatedTotal(result.products)) > 10
      /\ NoPageError )
    => result.success = TRUE

\* C2: every page-local error recorded in a page's errors list appears in the
\* parsing_errors of the compiled result.
C2_PageErrorsSurfaced ==
    Compiled =>
        \A i \in 1..Len(page_data_list) :
            \A e \in SeqToSet(page_data_list[i].errors) :
                e \in SeqToSet(result.parsing_errors)

\* C3: every line item of the compiled result is owned by exactly one delivery
\* group of delivery_data: none is missing from all groups, none is owned
\* twice.  Stated here for the documents whose pages were all extracted
\* without a page-local error.
C3_EveryItemOwnedOnce ==
    (Compiled /\ NoPageError) =>
        \A i \in 1..Len(result.products) :
            Cardinality(Owners(result.products[i].pid)) = 1

\* C4: no two delivery groups of the compiled result have the same
\* (series, number) pair.
C4_GroupsUniqueBySeriesNumber ==
    Compiled =>
        \A i, j \in 1..Len(result.delivery_data) :
            i # j =>
                <<result.delivery_data[i].ddt_series, result.delivery_data[i].ddt_number>>
                # <<result.delivery_data[j].ddt_series, result.delivery_data[j].ddt_number>>

\* the same delivery header occurs on two pages, next to a different one
C4_Witness ==
    /\ Compiled
    /\ Len(result.delivery_data) >= 2
    /\ \E p, q \in 1..Len(page_data_list) :
          /\ p < q
          /\ \E a \in SeqToSet(page_data_list[p].all_deliveries),
                b \in SeqToSet(page_data_list[q].all_deliveries) :
                a.ddt_series = b.ddt_series /\ a.ddt_number = b.ddt_number

\* C5: when no page yields a delivery group, the result holds exactly one
\* synthetic group, series and number absent, that owns the line items of all
\* pages in page order.
C5_UnassignedGroupOwnsAll ==
    ( /\ Compiled
      /\ \A i \in 1..Len(page_data_list) : page_data_list[i].all_deliveries = <<>> )
    => /\ Len(result.delivery_data) = 1
       /\ result.delivery_data[1].ddt_series = None
       /\ result.delivery_data[1].ddt_number = None
       /\ result.delivery_data[1].products =
             Flatten([i \in 1..Len(page_data_list) |-> page_data_list[i].products])

\* two pages without a delivery header, both with line items
C5_Witness ==
    /\ Compiled
    /\ Len(page_data_list) >= 2
    /\ \A i \in 1..Len(page_data_list) :
          page_data_list[i].all_deliveries = <<>> /\ page_data_list[i].products # <<>>
    /\ Len(result.delivery_data[1].products) >= 2

\* C6: with checksum validation enabled and a declared grand total in the
\* header when compilation starts, validation_checksum_ok is true iff the
\* declared total and the sum of the line totals differ by at most 0.01;
\* otherwise it is false and a checksum-mismatch entry is recorded.
C6_ChecksumOutcome ==
    ( /\ Compiled
      /\ config.validate_checksums
      /\ bill_data # <<>> /\ IsSet(DeclaredTotal) )
    => /\ result.validation_checksum_ok
            <=> Abs(DeclaredTotal[1] - CalculatedTotal(result.products)) <= 10
       /\ ~result.validation_checksum_ok
            => Err("Checksum Mismatch", -1) \in SeqToSet(result.parsing_errors)

\* the five line totals 126.911, 87.842, 16.238, 16.616, 2.907 against 250.51
C6_Witness ==
    /\ Compiled
    /\ config.validate_checksums
    /\ bill_data # <<>> /\ DeclaredTotal = Num(250510)
    /\ [i \in 1..Len(result.products) |-> result.products[i].total_price[1]]
          = <<126911, 87842, 16238, 16616, 2907>>
    /\ result.validation_checksum_ok

\* C7: after compile_final_result returns, on the normal path and on the
\* exception path alike, success = true iff parsing_errors is empty.
C7_SuccessIffNoParsingErrors ==
    Compiled => (result.success <=> result.parsing_errors = <<>>)

\* the except block of compile_final_result ran
C7_Witness ==
    /\ Compiled
    /\ result.message = "Compilation failed with errors"
    /\ ~result.success

IsErrorResponse(r) ==
    /\ r.success = FALSE
    /\ r.data.bill = <<>>
    /\ r.data.products = <<>>
    /\ r.data.validation_checksum_ok = FALSE
    /\ Len(r.data.parsing_errors) = 1
    /\ DOMAIN r.data = {"bill", "delivery", "products", "extraction_method",
                        "validation_checksum_ok", "parsing_errors"}

\* C8: process_invoice never raises.  For an invalid document, an
\* undeterminable page structure or an unhandled exception of a later step it
\* returns the structured error response (success false, empty bill and
\* products, checksum flag false, exactly one parsing error) with no partial
\* extraction data, and no pipeline step runs after it has returned.
C8_FatalErrorsShortCircuit ==
    /\ [](pc = "done" =>
            /\ response # <<>>
            /\ (pdf = <<>> \/ pdf.page_count = 0 \/ result = <<>>)
                  => IsErrorResponse(response)
            /\ \/ IsErrorResponse(response)
               \/ /\ result # <<>>
                  /\ Len(page_data_list) = Len(page_numbers)
                  /\ response = ConvertToLaravelFormat(result))
    /\ [][pc # "done" /\ response = <<>>]_vars

\* an exception after pages were extracted: the response carries none of it
C8_Witness ==
    /\ pc = "done"
    /\ page_data_list # <<>>
    /\ \E i \in 1..Len(page_data_list) : page_data_list[i].products # <<>>
    /\ result = <<>>
    /\ IsErrorResponse(response)

-----------------------------------------------------------------------------
(* The footer back-fill: compile_final_result on documents whose last pages  *)
(* print the footer fields, the header coming from the file name             *)

MaxFooterPages == 3

FooterOfOtherPage ==
    [total |-> <<260000>>, porto |-> <<"ASSEGNATO">>, colli |-> <<5>>,
     net |-> <<100000>>, gross |-> <<120000>>]

\* a footer whose fields are printed with the value zero, the shipping term empty
FooterOfZeros ==
    [total |-> <<0>>, porto |-> <<"">>, colli |-> <<0>>, net |-> <<0>>, gross |-> <<0>>]

FooterTexts ==
    {EmptyText} \cup
    {Text(1000, <<>>, <<>>, f, NoCompletion) :
        f \in {NoFooter, FooterOfDocument, FooterOfOtherPage, FooterOfZeros}}

FooterPageLists ==
    UNION {{[i \in 1..n |-> ExtractPageData(i - 1, f[i], <<>>, "none")] :
              f \in [1..n -> FooterTexts]} : n \in 1..MaxFooterPages}

InitFooter ==
    /\ pc = "compile_start"
    /\ config \in Configs
    /\ pdf = <<>>
    /\ bill_data \in {<<ExtractMissingFromFilename(fn, BillData)>> : fn \in FileNames}
    /\ page_data_list \in FooterPageLists
    /\ page_numbers = [i \in 1..Len(page_data_list) |-> i - 1]
    /\ validation_results =
          [i \in 1..Len(page_data_list) |-> ValidatePageData(page_data_list[i], config)]
    /\ result = <<>>
    /\ response = <<>>

SpecFooter == InitFooter /\ [][NextCompile]_vars

\* what the footer patterns of a field match on a page: <<>> when nothing
MatchedDecimal(candidates) == FirstAccepted(candidates)

MatchedFirst(candidates) ==
    IF candidates # <<>> THEN <<Head(candidates)>> ELSE <<>>

\* the value the back-fill is to leave in a field: the value it had, else the
\* match of the last page, else the match of the page before it
BackFilled(was_set, before, on_last, on_previous) ==
    IF was_set THEN before
    ELSE IF on_last # <<>> THEN on_last
    ELSE IF on_previous # <<>> THEN on_previous
    ELSE before

FooterOf(i) ==
    IF i >= 1 /\ page_data_list[i].raw_text.len # 0
    THEN page_data_list[i].raw_text.footer ELSE NoFooter

\* C9: the footer back-fill never overwrites a header field that is already
\* set; each of package count, shipping terms, net weight, gross weight and
\* grand total that is still missing takes the value matched on the last page,
\* else the value matched on the second-to-last page; earlier pages are never
\* consulted.
C9_FooterBackFill ==
    (Compiled /\ bill_data # <<>> /\ page_data_list # <<>>) =>
        LET before == bill_data[1]
            after  == result.bill_data[1]
            last   == FooterOf(Len(page_data_list))
            prev   == FooterOf(Len(page_data_list) - 1)
        IN  /\ after.total_amount =
                  BackFilled(IsSet(before.total_amount), before.total_amount,
                             MatchedDecimal(last.total), MatchedDecimal(prev.total))
            /\ after.net_weight_kg =
                  BackFilled(IsSet(before.net_weight_kg), before.net_weight_kg,
                             MatchedDecimal(last.net), MatchedDecimal(prev.net))
            /\ after.gross_weight_kg =
                  BackFilled(IsSet(before.gross_weight_kg), before.gross_weight_kg,
                             MatchedDecimal(last.gross), MatchedDecimal(prev.gross))
            /\ <<after.shipping_term>> =
                  BackFilled(before.shipping_term # None, <<before.shipping_term>>,
                             MatchedFirst(last.porto), MatchedFirst(prev.porto))
            /\ after.package_count =
                  BackFilled(IsSet(before.package_count), before.package_count,
                             MatchedFirst(last.colli), MatchedFirst(prev.colli))

-----------------------------------------------------------------------------
(* Product association on one page: extract_page_data on a page whose text   *)
(* prints delivery headers and product codes at the positions AssocSlots     *)

MaxAssocProducts == 2

AssocSlots == <<50, 300, 900, 950>>

\* what is printed at a slot: nothing, the header of a delivery or a code
AssocContents == {"-", "D1", "D2", "A", "B"}

\* the slots of layout f that print c, in text order
SlotsWith(f, c) == SelectSeq([i \in 1..Len(AssocSlots) |-> i], LAMBDA i : f[i] = c)

\* found_ddts (lines 199-206): the matches of the first pattern (a series of
\* nine characters, D1) come before those only the flexible pattern finds (D2)
AssocText(f) ==
    LET d1 == SlotsWith(f, "D1")
        d2 == SlotsWith(f, "D2")
        a  == SlotsWith(f, "A")
        b  == SlotsWith(f, "B")
    IN  Text(1000,
             [k \in 1..Len(d1) |->
                 Ddt(AssocSlots[d1[k]], "MS5LH0002", "3635", "MMM25.22", "GIACCA")]
             \o [k \in 1..Len(d2) |->
                 Ddt(AssocSlots[d2[k]], "MS5LH001", "363", "MMM25.23", "GONNA")],
             [k \in 1..Len(a) |-> Code(AssocSlots[a[k]], "MMA001")]
             \o [k \in 1..Len(b) |-> Code(AssocSlots[b[k]], "MMA002")],
             NoFooter, NoCompletion)

\* the rows of the page's grids; the code MMA005 is printed nowhere in the text
AssocTables ==
    UNION {[1..n -> {P1, P2, P5}] : n \in 1..MaxAssocProducts}

InitAssoc ==
    /\ pc = "page_start"
    /\ config \in {c \in Configs : c.max_pages_to_process = NoNum}
    /\ pdf \in {[page_count |-> 1, filename |-> FileName(NoNum, NoNum, NoNum, NoNum),
                 text |-> AssocText(f), tables |-> t] :
                   f \in [1..Len(AssocSlots) -> AssocContents], t \in AssocTables}
    /\ bill_data = <<>>
    /\ page_numbers = <<0>>
    /\ page_data_list = <<>>
    /\ validation_results = <<>>
    /\ result = <<>>
    /\ response = <<>>

ExtractOnePage ==
    /\ pc = "page_start"
    /\ page_data_list' = <<ExtractPageData(0, pdf.text, pdf.tables, "none")>>
    /\ pc' = "page_done"
    /\ UNCHANGED <<config, pdf, bill_data, page_numbers, validation_results,
                   result, response>>

NextAssoc == ExtractOnePage

SpecAssoc == InitAssoc /\ [][NextAssoc]_vars

\* the page extract_page_data returned
AssocPage == page_data_list[1]

\* text position of delivery group j of the page: the first print of its header
GroupPosition(j) ==
    Min({t.pos : t \in {u \in SeqToSet(AssocPage.raw_text.ddts) :
            /\ u.series = AssocPage.all_deliveries[j].ddt_series
            /\ u.number = AssocPage.all_deliveries[j].ddt_number}})

\* text position of line item i: the first print of its code, else end of text
ItemPosition(i) ==
    LET at == {u.pos : u \in {v \in SeqToSet(AssocPage.raw_text.codes) :
                  v.code = AssocPage.products[i].product_code}}
    IN  IF at = {} THEN AssocPage.raw_text.len ELSE Min(at)

\* the groups of the page that own line item i
GroupsOwning(i) ==
    {j \in 1..Len(AssocPage.all_deliveries) :
        \E k \in 1..Len(AssocPage.all_deliveries[j].products) :
            AssocPage.all_deliveries[j].products[k].pid = AssocPage.products[i].pid}

\* C10: on a page with two or more delivery groups, each line item is
\* assigned to the group whose text position is the greatest one at or before
\* the item's position, the item's position being the first occurrence of its
\* product code in the raw text, or end-of-text when the code does not occur.
C10_ClosestPrecedingGroup ==
    (pc = "page_done" /\ Len(AssocPage.all_deliveries) >= 2) =>
        \A i \in 1..Len(AssocPage.products) :
            LET preceding == {j \in 1..Len(AssocPage.all_deliveries) :
                                 GroupPosition(j) <= ItemPosition(i)}
            IN  preceding # {} =>
                  \E j \in preceding :
                     /\ GroupsOwning(i) = {j}
                     /\ \A k \in preceding : GroupPosition(k) <= GroupPosition(j)

\* groups at 50 and 900, an item at 300 and an item at 950
C10_Witness ==
    /\ pc = "page_done"
    /\ Len(AssocPage.all_deliveries) = 2
    /\ Len(AssocPage.products) = 2
    /\ GroupPosition(1) = 50 /\ GroupPosition(2) = 900
    /\ ItemPosition(1) = 300 /\ ItemPosition(2) = 950
    /\ GroupsOwning(1) = {1} /\ GroupsOwning(2) = {2}

-----------------------------------------------------------------------------
(* CoordinateTableExtractor._merge_paired_rows                               *)
(* (extractors/coordinate_table_extractor.py lines 235-299).  A cell is <<>> *)
(* when it is the empty string, else <<k>>, k naming the text printed (here  *)
(* the raw row it was printed in); cells arrive stripped from                *)
(* _process_table_row.  The function-level specifications keep the call's    *)
(* argument in `pdf` and the returned value in `result`.                     *)

MaxRows == 3

\* product codes that contain the vendor prefix 'MMA'
VendorCodes == {"MMA001"}

RowFields == {"quantity", "unit_price", "total_price", "unit_of_measure", "voce_dog"}

\* lines 258 and 283
HasProductCode(row) == row.product_code # "" /\ row.product_code \in VendorCodes

\* lines 266-275: a field the current row lacks is taken from prev_row
MergeFromPrevious(current_row, prev_row) ==
    [f \in DOMAIN current_row |->
        IF f \in RowFields /\ current_row[f] = <<>> /\ prev_row[f] # <<>>
        THEN prev_row[f] ELSE current_row[f]]

\* lines 293: the row carries a quantity, a unit price or a total
HasMeaningfulData(row) ==
    row.quantity # <<>> \/ row.unit_price # <<>> \/ row.total_price # <<>>

\* the row is emitted whenever it carries a number, whatever follows it
AppendsWheneverMeaningful(raw_rows, i) == HasMeaningfulData(raw_rows[i])

\* lines 281-294: whether the row without product code at index i is appended
AppendsSupplementary(raw_rows, i) ==
    IF i + 1 <= Len(raw_rows)
    THEN ~HasProductCode(raw_rows[i + 1])
    ELSE HasMeaningfulData(raw_rows[i])

\* the while loop from index i on; every appended row is paired with the
\* index of the raw row it was copied from
\* the objects of the call: the rows of the argument are objects 1..n of the
\* heap, in list order; a row the loop creates is appended to the heap
\* current_row is the list's own row i, not a copy of it
AliasRow(heap, i) == [heap |-> heap, ref |-> i]

\* line 255, raw_rows[i].copy(): current_row is a new object with row i's cells
CopyRow(heap, i) == [heap |-> Append(heap, heap[i]), ref |-> Len(heap) + 1]

\* lines 254-296: the loop from index i on; merged lists the objects appended
\* to merged_rows, each with the index of the raw row it was made from
RECURSIVE MergeLoop(_, _, _, _)
MergeLoop(heap, n, i, merged) ==
    IF i > n THEN [heap |-> heap, merged |-> merged]
    ELSE LET copied == CopyRow(heap, i)
             current_row == copied.ref
             raw_rows == SubSeq(copied.heap, 1, n)
         IN  IF HasProductCode(copied.heap[current_row])
             THEN MergeLoop(IF i > 1
                            THEN [copied.heap EXCEPT ![current_row] =
                                    MergeFromPrevious(copied.heap[current_row],
                                                      raw_rows[i - 1])]
                            ELSE copied.heap,
                            n, i + 1,
                            Append(merged, [src |-> i, ref |-> current_row]))
             ELSE IF AppendsSupplementary(raw_rows, i)
                  THEN MergeLoop(copied.heap, n, i + 1,
                                 Append(merged, [src |-> i, ref |-> current_row]))
                  ELSE MergeLoop(copied.heap, n, i + 1, merged)

\* the list returned: the rows of merged_rows, tagged with their raw row
MergePairedRows(raw_rows) ==
    LET end == MergeLoop(raw_rows, Len(raw_rows), 1, <<>>)
    IN  [k \in 1..Len(end.merged) |->
            [src |-> end.merged[k].src, row |-> end.heap[end.merged[k].ref]]]

\* the rows of the caller's list when the call returns
RawRowsAfterMerge(raw_rows) ==
    SubSeq(MergeLoop(raw_rows, Len(raw_rows), 1, <<>>).heap, 1, Len(raw_rows))

\* which cells of a raw row are printed
RowShapes ==
    { {}, {"quantity"}, {"unit_price"}, {"total_price"}, {"unit_of_measure"},
      {"voce_dog"}, {"quantity", "unit_price", "total_price"}, RowFields }

RawRow(code, shape, k) ==
    [f \in RowFields \cup {"product_code"} |->
        IF f = "product_code" THEN code
        ELSE IF f \in shape THEN <<k>> ELSE <<>>]

\* the rows of a table: per row a code cell (empty, a vendor code, or other
\* text) and a shape
RawRowLists ==
    UNION {{[i \in 1..n |-> RawRow(c[i][1], c[i][2], i)] :
              c \in [1..n -> ({"", "MMA001"} \X RowShapes)
                             \cup ({"TOTALE"} \X {{}, {"total_price"}})]} :
           n \in 0..MaxRows}

\* ProcessingConfig() with its defaults
DefaultConfig ==
    [enable_ocr_validation |-> TRUE, ocr_confidence_threshold |-> 800,
     validate_checksums |-> TRUE, max_pages_to_process |-> NoNum]

InitRows ==
    /\ pc = "rows_start"
    /\ config = DefaultConfig
    /\ pdf \in {[raw_rows |-> r] : r \in RawRowLists}
    /\ bill_data = <<>>
    /\ page_numbers = <<>>
    /\ page_data_list = <<>>
    /\ validation_results = <<>>
    /\ result = <<>>
    /\ response = <<>>

\* _merge_paired_rows(raw_rows): result holds the list returned, response the
\* rows of the caller's list after the call
MergeRows ==
    /\ pc = "rows_start"
    /\ result' = MergePairedRows(pdf.raw_rows)
    /\ response' = RawRowsAfterMerge(pdf.raw_rows)
    /\ pc' = "rows_done"
    /\ UNCHANGED <<config, pdf, bill_data, page_numbers, page_data_list,
                   validation_results>>

NextRows == MergeRows

SpecRows == InitRows /\ [][NextRows]_vars

\* row i of the argument is a primary row / a supplementary row
IsPrimary(i) == HasProductCode(pdf.raw_rows[i])

IsSupplementary(i) == ~HasProductCode(pdf.raw_rows[i])

\* the items of the output copied from raw row i
ItemsOf(i) == {k \in 1..Len(result) : result[k].src = i}

\* C11: a primary row whose quantity, unit price, total, unit of measure or
\* customs code is empty receives that field's value from the immediately
\* preceding row when that row is a supplementary row; a value is never taken
\* from a row further back, and never from a preceding row that is itself a
\* primary row.
C11_FillFromPrecedingSupplementary ==
    pc = "rows_done" =>
        \A i \in 1..Len(pdf.raw_rows) :
            IsPrimary(i) =>
                \A k \in ItemsOf(i) : \A f \in RowFields :
                    pdf.raw_rows[i][f] = <<>> =>
                        result[k].row[f] =
                            IF i > 1 /\ IsSupplementary(i - 1)
                            THEN pdf.raw_rows[i - 1][f] ELSE <<>>

\* C12: a supplementary row that is immediately followed by a primary row
\* never appears as its own item in the output.
C12_FoldedRowNotEmitted ==
    pc = "rows_done" =>
        \A i \in 1..Len(pdf.raw_rows) - 1 :
            (IsSupplementary(i) /\ IsPrimary(i + 1)) => ItemsOf(i) = {}

\* a supplementary row with a quantity, folded into the primary row after it
C12_Witness ==
    /\ pc = "rows_done"
    /\ \E i \in 1..Len(pdf.raw_rows) - 1 :
          /\ IsSupplementary(i) /\ IsPrimary(i + 1)
          /\ pdf.raw_rows[i].quantity # <<>>
          /\ pdf.raw_rows[i + 1].quantity = <<>>
          /\ ItemsOf(i) = {}
          /\ \E k \in ItemsOf(i + 1) : result[k].row.quantity = pdf.raw_rows[i].quantity

\* C20: a supplementary row that is not immediately followed by a primary row
\* (it is the last row, or the next row is also supplementary) is emitted as
\* its own item only if at least one of its quantity, unit price or total
\* fields is non-empty.
C20_StandaloneOnlyWithNumbers ==
    pc = "rows_done" =>
        \A i \in 1..Len(pdf.raw_rows) :
            ( /\ IsSupplementary(i)
              /\ (i = Len(pdf.raw_rows) \/ IsSupplementary(i + 1))
              /\ ItemsOf(i) # {} )
            => HasMeaningfulData(pdf.raw_rows[i])

-----------------------------------------------------------------------------
(* CoordinateTableExtractor._find_table_boundaries (lines 301-392).  The     *)
(* page is the stream of its characters that belong to a marker: each has    *)
(* the y of the character and says which marker the text around it holds     *)
(* (a character near both markers counts for both); y grows down the page.   *)

MaxChars == 3

\* the buffer added below the end marker (line 361)
Buffer == 50

MarkerKinds == {"start", "end", "both", "other"}

MarkerYs == {100, 250, 400}

PageWidths == {595, 842}

\* lines 321-344: the occurrences of one marker, in the order of the stream
MarkersOf(chars, kind) ==
    SelectSeq(chars, LAMBDA c : c.kind = kind \/ c.kind = "both")

\* list.sort(key = y): insert m behind the entries whose y is not greater
RECURSIVE InsertByY(_, _)
InsertByY(sorted, m) ==
    IF sorted = <<>> THEN <<m>>
    ELSE IF Head(sorted).y <= m.y THEN <<Head(sorted)>> \o InsertByY(Tail(sorted), m)
    ELSE <<m>> \o sorted

\* the markers left in the order the stream gave them
KeepStreamOrder(markers) == markers

\* lines 347-348
RECURSIVE SortByY(_)
SortByY(markers) ==
    IF markers = <<>> THEN <<>>
    ELSE InsertByY(SortByY(SubSeq(markers, 1, Len(markers) - 1)),
                   markers[Len(markers)])

\* lines 358-368 and 375-385
BoxBetween(first_start, end_marker, width) ==
    LET y0 == IF first_start.y <= end_marker.y THEN first_start.y ELSE end_marker.y
        y1 == IF first_start.y >= end_marker.y THEN first_start.y ELSE end_marker.y
    IN  [x0 |-> 0, y0 |-> y0, x1 |-> width, y1 |-> y1 + Buffer]

\* <<>> is None, <<box>> a returned box
FindTableBoundaries(page) ==
    LET start_markers == SortByY(MarkersOf(page.chars, "start"))
        end_markers   == SortByY(MarkersOf(page.chars, "end"))
    IN  IF start_markers = <<>> \/ end_markers = <<>> THEN <<>>
        ELSE LET first_start == start_markers[1]
                 after  == SelectSeq(end_markers, LAMBDA m : m.y > first_start.y)
                 before == SelectSeq(end_markers, LAMBDA m : m.y < first_start.y)
             IN  IF after # <<>> THEN <<BoxBetween(first_start, after[1], page.width)>>
                 ELSE IF before # <<>>
                      THEN <<BoxBetween(first_start, before[1], page.width)>>
                      ELSE <<>>

BoundaryPages ==
    UNION {{[width |-> w, chars |-> c] :
              w \in PageWidths, c \in [1..n -> [kind : MarkerKinds, y : MarkerYs]]} :
           n \in 0..MaxChars}

InitBoundaries ==
    /\ pc = "boundaries_start"
    /\ config = DefaultConfig
    /\ pdf \in BoundaryPages
    /\ bill_data = <<>>
    /\ page_numbers = <<>>
    /\ page_data_list = <<>>
    /\ validation_results = <<>>
    /\ result = <<>>
    /\ response = <<>>

FindBoundaries ==
    /\ pc = "boundaries_start"
    /\ result' = FindTableBoundaries(pdf)
    /\ pc' = "boundaries_done"
    /\ UNCHANGED <<config, pdf, bill_data, page_numbers, page_data_list,
                   validation_results, response>>

NextBoundaries == FindBoundaries

SpecBoundaries == InitBoundaries /\ [][NextBoundaries]_vars

\* the y of the occurrences of a marker on the page, as a set
StartYs == {pdf.chars[i].y : i \in {j \in 1..Len(pdf.chars) :
                                       pdf.chars[j].kind \in {"start", "both"}}}

EndYs == {pdf.chars[i].y : i \in {j \in 1..Len(pdf.chars) :
                                     pdf.chars[j].kind \in {"end", "both"}}}

\* the end occurrences the box may rest on, given the first start s
EndsFor(ys) ==
    IF \E e \in EndYs : e > ys
    THEN {Min({e \in EndYs : e > ys})}
    ELSE {e \in EndYs : e < ys}

\* the page with its character stream in another order
Reordered(perm) ==
    [pdf EXCEPT !.chars = [i \in 1..Len(pdf.chars) |-> pdf.chars[perm[i]]]]

\* C13: whenever _find_table_boundaries returns a box, x0 = 0, x1 = page
\* width, y0 = min(s, e) and y1 = max(s, e) + 50, s being the smallest-y start
\* occurrence and e the first end occurrence whose y follows s or, if none
\* follows, an end occurrence before s; the box is the same whatever the order
\* in which the occurrences are discovered.
C13_BoundaryBox ==
    pc = "boundaries_done" =>
        /\ result # <<>> =>
              /\ result[1].x0 = 0
              /\ result[1].x1 = pdf.width
              /\ StartYs # {}
              /\ \E e \in EndsFor(Min(StartYs)) :
                    /\ result[1].y0 = Min({Min(StartYs), e})
                    /\ result[1].y1 = (CHOOSE m \in {Min(StartYs), e} :
                                          m >= Min(StartYs) /\ m >= e) + 50
        /\ \A perm \in Permutations(1..Len(pdf.chars)) :
              FindTableBoundaries(Reordered(perm)) = result

\* the end marker at y = 400 is discovered before the start marker at y = 100
C13_Witness ==
    /\ pc = "boundaries_done"
    /\ Len(pdf.chars) >= 2
    /\ pdf.chars[1] = [kind |-> "end", y |-> 400]
    /\ pdf.chars[2] = [kind |-> "start", y |-> 100]
    /\ result # <<>>
    /\ result[1].y0 = 100
    /\ result[1].y1 >= 400

-----------------------------------------------------------------------------
(* parse_italian_decimal (utils/helpers.py lines 9-76).  A str is the        *)
(* sequence of its characters; a Decimal is its coefficient and exponent     *)
(* (Decimal('0.50') is coef 50, exp -2); None is <<>>.  The inputs hold no   *)
(* sign and no exponent notation.                                            *)

MaxLen == 4

DigitChars == <<"0", "1", "2", "3", "4", "5", "6", "7", "8", "9">>

IsDigit(c) == \E i \in 1..10 : DigitChars[i] = c

DigitValue(c) == (CHOOSE i \in 1..10 : DigitChars[i] = c) - 1

Contains(str, c) == \E i \in 1..Len(str) : str[i] = c

\* str.replace(a, b) for single characters; b = "" removes a
Replace(str, a, b) ==
    LET kept == IF b = "" THEN SelectSeq(str, LAMBDA c : c # a) ELSE str
    IN  [i \in 1..Len(kept) |-> IF kept[i] = a THEN b ELSE kept[i]]

\* str.strip()
RECURSIVE Strip(_)
Strip(str) ==
    IF str = <<>> THEN <<>>
    ELSE IF Head(str) = " " THEN Strip(Tail(str))
    ELSE IF str[Len(str)] = " " THEN Strip(SubSeq(str, 1, Len(str) - 1))
    ELSE str

\* str.split(c)
RECURSIVE Split(_, _)
Split(str, c) ==
    IF ~Contains(str, c) THEN <<str>>
    ELSE LET at == Min({i \in 1..Len(str) : str[i] = c})
         IN  <<SubSeq(str, 1, at - 1)>> \o Split(SubSeq(str, at + 1, Len(str)), c)

\* int(digits)
RECURSIVE DigitsToInt(_)
DigitsToInt(digits) ==
    IF digits = <<>> THEN 0
    ELSE 10 * DigitsToInt(SubSeq(digits, 1, Len(digits) - 1))
         + DigitValue(digits[Len(digits)])

\* str(n) for n >= 0
RECURSIVE IntToDigits(_)
IntToDigits(n) ==
    IF n < 10 THEN <<DigitChars[n + 1]>>
    ELSE IntToDigits(n \div 10) \o <<DigitChars[(n % 10) + 1]>>

\* Decimal(str): <<>> stands for InvalidOperation.  The constructor strips
\* whitespace and takes digits with at most one point and at least one digit.
DecimalOf(str) ==
    LET text   == Strip(str)
        digits == SelectSeq(text, LAMBDA c : c # ".")
        points == {i \in 1..Len(text) : text[i] = "."}
    IN  IF digits = <<>> \/ Cardinality(points) > 1
           \/ \E i \in 1..Len(digits) : ~IsDigit(digits[i])
        THEN <<>>
        ELSE <<[coef |-> DigitsToInt(digits),
                exp  |-> IF points = {} THEN 0
                         ELSE -(Len(text) - (CHOOSE i \in points : TRUE))]>>

\* str(Decimal) in plain notation (exp <= 0, no exponent needed here)
DecimalToString(d) ==
    LET digits == IntToDigits(d.coef)
        padded == [i \in 1..(IF Len(digits) > -d.exp THEN 0
                             ELSE 1 - d.exp - Len(digits)) |-> "0"] \o digits
    IN  IF d.exp = 0 THEN digits
        ELSE SubSeq(padded, 1, Len(padded) + d.exp) \o <<".">>
             \o SubSeq(padded, Len(padded) + d.exp + 1, Len(padded))

\* length of the run of digits of str that starts at index i
RECURSIVE DigitRun(_, _)
DigitRun(str, i) ==
    IF i > Len(str) \/ ~IsDigit(str[i]) THEN 0 ELSE 1 + DigitRun(str, i + 1)

\* what \d*[.,]?\d+ matches at index i (<<>>: no match there)
NumericMatchAt(str, i) ==
    LET k  == DigitRun(str, i)
        k2 == IF i + k <= Len(str) /\ str[i + k] \in {".", ","}
              THEN DigitRun(str, i + k + 1) ELSE 0
    IN  IF k2 >= 1 THEN SubSeq(str, i, i + k + k2)
        ELSE IF k >= 1 THEN SubSeq(str, i, i + k - 1)
        ELSE <<>>

\* lines 65-74: re.search takes the leftmost match
FallbackParse(cleaned_value) ==
    LET starts == {i \in 1..Len(cleaned_value) :
                      NumericMatchAt(cleaned_value, i) # <<>>}
    IN  IF starts = {} THEN <<>>
        ELSE DecimalOf(Replace(NumericMatchAt(cleaned_value, Min(starts)), ",", "."))

\* a lone point is read as a thousands separator too
StandardizeGroupingPoint(cleaned_value) ==
    Replace(Replace(cleaned_value, ".", ""), ",", ".")

\* lines 37-53
Standardize(cleaned_value) ==
    IF Contains(cleaned_value, ",") /\ Contains(cleaned_value, ".")
    THEN LET parts == Split(cleaned_value, ",")
         IN  IF Len(parts) = 2
             THEN Replace(parts[1], ".", "") \o <<".">> \o parts[2]
             ELSE Replace(Replace(cleaned_value, ".", ""), ",", ".")
    ELSE IF Contains(cleaned_value, ",")
    THEN Replace(cleaned_value, ",", ".")
    ELSE cleaned_value

\* text_value is [type |-> "NoneType"], [type |-> "Decimal", value |-> d] or
\* [type |-> "str", value |-> characters]
ParseItalianDecimal(text_value) ==
    IF text_value.type = "NoneType" THEN <<>>
    ELSE IF text_value.type = "Decimal" THEN <<text_value.value>>
    ELSE LET cleaned_value == Strip(text_value.value)
         IN  IF cleaned_value = <<>> THEN <<>>
             ELSE IF DecimalOf(Standardize(cleaned_value)) # <<>>
                  THEN DecimalOf(Standardize(cleaned_value))
                  ELSE FallbackParse(cleaned_value)

Str(chars) == [type |-> "str", value |-> chars]

TextAlphabet == {"0", "1", ",", ".", " ", "x"}

TextValues ==
    {[type |-> "NoneType"]}
    \cup {[type |-> "Decimal", value |-> d] :
             d \in {[coef |-> 126911, exp |-> -3], [coef |-> 50, exp |-> -2],
                    [coef |-> 0, exp |-> 0]}}
    \cup {Str(c) : c \in UNION {[1..n -> TextAlphabet] : n \in 0..MaxLen}}
    \cup {Str(<<"1", "2", "6", ",", "9", "1", "1">>),
          Str(<<"1", ".", "2", "3", "4", ",", "5", "6">>),
          Str(<<"1", "2", "3", "4", ".", "5", "6">>),
          Str(<<"1", ".", "2", "3", "4", ".", "5", "6", "7">>),
          Str(<<"1", ".", "2", ",", "3", ",", "4">>)}

InitParse ==
    /\ pc = "parse_start"
    /\ config = DefaultConfig
    /\ pdf \in {[text_value |-> v] : v \in TextValues}
    /\ bill_data = <<>>
    /\ page_numbers = <<>>
    /\ page_data_list = <<>>
    /\ validation_results = <<>>
    /\ result = <<>>
    /\ response = <<>>

\* parse_italian_decimal(text_value)
ParseText ==
    /\ pc = "parse_start"
    /\ result' = ParseItalianDecimal(pdf.text_value)
    /\ pc' = "parsed"
    /\ UNCHANGED <<config, pdf, bill_data, page_numbers, page_data_list,
                   validation_results, response>>

\* parse_italian_decimal(str(value)) on the value just returned
ParseCanonical ==
    /\ pc = "parsed"
    /\ result # <<>>
    /\ response' = ParseItalianDecimal(Str(DecimalToString(result[1])))
    /\ pc' = "reparsed"
    /\ UNCHANGED <<config, pdf, bill_data, page_numbers, page_data_list,
                   validation_results, result>>

NextParse == ParseText \/ ParseCanonical

SpecParse == InitParse /\ [][NextParse]_vars

\* C14: parse_italian_decimal maps "126,911" to 126.911, "1.234,56" to
\* 1234.56 and the empty string to null; a Decimal argument is returned
\* unchanged and, for every input x it accepts,
\* parse(str(parse(x))) = parse(x).
C14_ParseItalianDecimal ==
    /\ pc \in {"parsed", "reparsed"} =>
          /\ pdf.text_value = Str(<<"1", "2", "6", ",", "9", "1", "1">>)
                => result = <<[coef |-> 126911, exp |-> -3]>>
          /\ pdf.text_value = Str(<<"1", ".", "2", "3", "4", ",", "5", "6">>)
                => result = <<[coef |-> 123456, exp |-> -2]>>
          /\ pdf.text_value = Str(<<>>) => result = <<>>
          /\ pdf.text_value.type = "Decimal" => result = <<pdf.text_value.value>>
    /\ pc = "reparsed" => response = result

\* "1.234,56" was parsed to 1234.56 and its canonical text parsed again
C14_Witness ==
    /\ pc = "reparsed"
    /\ pdf.text_value = Str(<<"1", ".", "2", "3", "4", ",", "5", "6">>)
    /\ result = <<[coef |-> 123456, exp |-> -2]>>
    /\ response = result

-----------------------------------------------------------------------------
(* OCRValidator.validate_page_data called on one extracted page *)

MaxProducts == 3

MaxItems == 10

\* 2 x 1.500 printed as 3.001: within the tolerance of one cent
PNear == ProductData("MMA002", Num(2000), Num(1500), Num(3001))

\* a row without product code
PNoCode == ProductData("", Num(1000), Num(16238), Num(16238))

\* a row without quantity
PNoQuantity == ProductData("MMA003", NoNum, Num(16238), Num(16238))

\* one piece at no charge: unit price and total 0
PFree == ProductData("MMA004", Num(1000), Num(0), Num(0))

\* a returned piece: quantity -1
PReturned == ProductData("MMA001", Num(-1000), Num(1500), Num(1500))

ValidatorTexts ==
    { EmptyText,
      Text(1000, <<>>, <<Code(300, "MMA001")>>, NoFooter, NoCompletion),
      Text(1000, <<>>, CodeOccurrences, NoFooter, NoCompletion) }

ValidatorProducts ==
    UNION {[1..n -> {P1, PNear, PBad, PNoCode, PNoQuantity, PFree, PReturned}] :
               n \in 0..MaxProducts}
    \cup UNION {[1..n -> {PNear, PBad}] : n \in 0..MaxItems}

ValidatorPage(text, products) ==
    [PageData(0, text) EXCEPT
        !.products = [i \in 1..Len(products) |->
                         [products[i] EXCEPT !.pid = <<0, i>>]]]

ValidatorConfigs ==
    [enable_ocr_validation : BOOLEAN, ocr_confidence_threshold : {500, 800, 900},
     validate_checksums : {TRUE}, max_pages_to_process : {NoNum}]

InitValidate ==
    /\ pc = "validate_start"
    /\ config \in ValidatorConfigs
    /\ pdf = <<>>
    /\ bill_data = <<>>
    /\ page_numbers = <<0>>
    /\ page_data_list \in {<<ValidatorPage(t, ps)>> :
                              t \in ValidatorTexts, ps \in ValidatorProducts}
    /\ validation_results = <<>>
    /\ result = <<>>
    /\ response = <<>>

\* validate_page_data(page_data)
ValidatePage ==
    /\ pc = "validate_start"
    /\ validation_results' = <<ValidatePageData(page_data_list[1], config)>>
    /\ pc' = "validate_done"
    /\ UNCHANGED <<config, pdf, bill_data, page_numbers, page_data_list,
                   result, response>>

NextValidate == ValidatePage

SpecValidate == InitValidate /\ [][NextValidate]_vars

Validated == pc = "validate_done"

Outcome == validation_results[1]

ValidatedProducts == page_data_list[1].products

\* C15: for every ValidationOutcome returned by validate_page_data, is_valid
\* is true iff confidence_score >= the configured threshold and the list of
\* validation errors is empty.
C15_ValidIffScoreAndNoErrors ==
    Validated =>
        (Outcome.is_valid <=>
            /\ Outcome.confidence_score >= config.ocr_confidence_threshold
            /\ Outcome.validation_errors = <<>>)

\* C15 as amended: the equivalence holds for every outcome of a validation
\* that ran; with validation disabled the outcome is valid with confidence
\* 0.8 and no errors, whatever the threshold.
C15_ValidIffScoreAndNoErrorsWhenEnabled ==
    Validated =>
        IF config.enable_ocr_validation
        THEN (Outcome.is_valid <=>
                 /\ Outcome.confidence_score >= config.ocr_confidence_threshold
                 /\ Outcome.validation_errors = <<>>)
        ELSE /\ Outcome.is_valid
             /\ Outcome.confidence_score = 800
             /\ Outcome.validation_errors = <<>>

\* validation ran, no error was recorded and the score alone (0.867 against
\* 0.9) made the page invalid
C15_Witness ==
    /\ Validated
    /\ config.enable_ocr_validation
    /\ Outcome.validation_errors = <<>>
    /\ ValidatedProducts # <<>>
    /\ Outcome.confidence_score < config.ocr_confidence_threshold
    /\ ~Outcome.is_valid

\* the products that pass every check of _validate_products_consistency
ConsistentItems ==
    {i \in 1..Len(ValidatedProducts) : ConsistencyError(ValidatedProducts[i]) = ""}

\* the products whose code is printed in the page text
ItemsInText ==
    {i \in 1..Len(ValidatedProducts) :
        /\ page_data_list[1].raw_text.len > 0
        /\ ValidatedProducts[i].product_code # ""
        /\ CodeInText(page_data_list[1].raw_text, ValidatedProducts[i].product_code)}

\* 1000 * n * (0.6 * consistency + 0.4 * text_match - penalty), n the number
\* of products (1 for an empty page)
ClaimedScoreNumerator ==
    LET n == IF ValidatedProducts = <<>> THEN 1 ELSE Len(ValidatedProducts)
        error_count == Len(Outcome.validation_errors)
    IN  600 * Cardinality(ConsistentItems) + 400 * Cardinality(ItemsInText)
        - n * Min({500, 200 * error_count})

CorrectedProducts == Outcome.corrected_data[1].corrected_products

\* C17: when a page is invalid the corrected item set has one item per
\* original item in the same order; an item that failed the arithmetic check
\* has total_price replaced by quantity x unit_price with all its other
\* fields kept, and every item that passed the arithmetic check is identical
\* to its original, for any number of items on the page.
C17_CorrectionsTouchOnlyFailedItems ==
    (Validated /\ config.enable_ocr_validation /\ ~Outcome.is_valid) =>
        /\ Outcome.corrected_data # <<>>
        /\ Len(CorrectedProducts) = Len(ValidatedProducts)
        /\ \A i \in 1..Len(ValidatedProducts) :
              LET p == ValidatedProducts[i]
              IN  /\ ConsistencyError(p) = "Price calculation mismatch" =>
                        CorrectedProducts[i] =
                           [p EXCEPT !.total_price =
                               Num((p.quantity[1] * p.unit_price[1]) \div 1000)]
                  /\ ConsistencyError(p) = "" => CorrectedProducts[i] = p

-----------------------------------------------------------------------------
(* Pages whose extraction failed, in the compiled result (specification Spec) *)

\* the pages on which a step of extract_page_data raised
FailedPages == {i \in 1..Len(page_data_list) : page_data_list[i].errors # <<>>}

\* the line item came from page i
FromPage(product, i) == product.pid[1] = page_data_list[i].page_number

-----------------------------------------------------------------------------
(* Line items printed before every delivery header (specification SpecAssoc) *)

\* C19: on a page with two or more delivery groups, a line item that no
\* group precedes is assigned to the first group of the page, the one that
\* occurs earliest in the page text, and is never dropped.
C19_UnprecededItemGoesToEarliestGroup ==
    (pc = "page_done" /\ Len(AssocPage.all_deliveries) >= 2) =>
        \A i \in 1..Len(AssocPage.products) :
            (\A j \in 1..Len(AssocPage.all_deliveries) :
                 GroupPosition(j) > ItemPosition(i))
            => \E j \in 1..Len(AssocPage.all_deliveries) :
                  /\ GroupsOwning(i) = {j}
                  /\ \A k \in 1..Len(AssocPage.all_deliveries) :
                        GroupPosition(j) <= GroupPosition(k)

-----------------------------------------------------------------------------
(* CoordinateTableExtractor.extract_table_data: the loop over the pages of   *)
(* the document (lines 66-165).  A page is its marker characters, whether    *)
(* reading it raises inside _find_table_boundaries, and what                 *)
(* extract_tables gives inside the box.                                      *)

MaxDocPages == 2

NoTableFound == "No table found between specified markers"

\* the marker characters of a page: none, both markers on one line, the start
\* above the end, the end above the start
PageMarkers ==
    { <<>>,
      <<[kind |-> "both", y |-> 100]>>,
      <<[kind |-> "start", y |-> 100], [kind |-> "end", y |-> 400]>>,
      <<[kind |-> "end", y |-> 100], [kind |-> "start", y |-> 400]>> }

\* what extract_tables and the first table give: no table, a header row that
\* maps to no column, a header row followed by no row, by a supplementary row
\* without numbers, by an item row; or an exception
TableKinds == {"no_table", "no_headers", "no_rows", "blank_row", "item_row", "raises"}

PageKinds == [chars : PageMarkers, broken : BOOLEAN, table : TableKinds]

\* page i of the document; the cells of its item row carry i
DocumentPage(kind, i) ==
    [width |-> 595, chars |-> kind.chars, broken |-> kind.broken,
     table |-> kind.table,
     raw_rows |-> CASE kind.table = "item_row" ->
                          <<RawRow("MMA001", {"quantity", "unit_price", "total_price"}, i)>>
                    [] kind.table = "blank_row" -> <<RawRow("", {}, i)>>
                    [] OTHER -> <<>>]

Documents ==
    UNION {{[pages |-> [i \in 1..n |-> DocumentPage(k[i], i)]] :
              k \in [1..n -> PageKinds]} : n \in 0..MaxDocPages}

\* _find_table_boundaries with its try/except (lines 312-392): an exception
\* while reading the characters gives None
FindTableBoundariesOrNone(page) ==
    IF page.broken THEN <<>> ELSE FindTableBoundaries(page)

\* lines 51-59
NewResults ==
    [success |-> FALSE, table_found |-> FALSE, headers_detected |-> FALSE,
     extracted_rows |-> <<>>, parsing_errors |-> <<>>]

\* lines 158-165
ExtractionFailed ==
    [success |-> FALSE, table_found |-> FALSE, headers_detected |-> FALSE,
     extracted_rows |-> <<>>, parsing_errors |-> <<"Extraction failed">>]

\* lines 73-144 for a page with a box
WithTableOf(results, page) ==
    LET found == [results EXCEPT !.table_found = TRUE]
        extracted_rows == MergePairedRows(page.raw_rows)
    IN  IF page.table \in {"no_table", "no_headers"} THEN found
        ELSE [found EXCEPT !.headers_detected = TRUE,
                           !.extracted_rows = extracted_rows,
                           !.success = extracted_rows # <<>>]

\* the first message is appended to every result without success
NoTableWheneverUnsuccessful(results) ==
    IF ~results.success
    THEN [results EXCEPT !.parsing_errors = Append(@, NoTableFound)]
    ELSE results

\* lines 149-154
FinalErrors(results) ==
    IF ~results.table_found
    THEN [results EXCEPT !.parsing_errors = Append(@, NoTableFound)]
    ELSE IF ~results.headers_detected
    THEN [results EXCEPT !.parsing_errors = Append(@, "Could not detect table headers")]
    ELSE IF results.extracted_rows = <<>>
    THEN [results EXCEPT !.parsing_errors = Append(@, "No data rows extracted")]
    ELSE results

InitExtract ==
    /\ pc = "extract_loop"
    /\ config = DefaultConfig
    /\ pdf \in Documents
    /\ bill_data = <<>>
    /\ page_numbers = <<>>
    /\ page_data_list = <<>>
    /\ validation_results = <<>>
    /\ result = NewResults
    /\ response = <<>>

\* the page the loop is at
CurrentPage == pdf.pages[Len(page_numbers) + 1]

\* lines 70-72: no box on this page, continue
SkipPage ==
    /\ pc = "extract_loop"
    /\ Len(page_numbers) < Len(pdf.pages)
    /\ FindTableBoundariesOrNone(CurrentPage) = <<>>
    /\ page_numbers' = Append(page_numbers, Len(page_numbers) + 1)
    /\ UNCHANGED <<pc, config, pdf, bill_data, page_data_list,
                   validation_results, result, response>>

\* lines 74-156: the page has a box; its table is read, the loop is left and
\* the results are returned (or the except block returns, lines 158-165)
TakeTable ==
    /\ pc = "extract_loop"
    /\ Len(page_numbers) < Len(pdf.pages)
    /\ FindTableBoundariesOrNone(CurrentPage) # <<>>
    /\ page_numbers' = Append(page_numbers, Len(page_numbers) + 1)
    /\ result' = IF CurrentPage.table = "raises" THEN ExtractionFailed
                 ELSE FinalErrors(WithTableOf(result, CurrentPage))
    /\ pc' = "extract_done"
    /\ UNCHANGED <<config, pdf, bill_data, page_data_list,
                   validation_results, response>>

\* lines 149-156 when the loop ran out of pages
ReturnWithoutTable ==
    /\ pc = "extract_loop"
    /\ Len(page_numbers) = Len(pdf.pages)
    /\ result' = FinalErrors(result)
    /\ pc' = "extract_done"
    /\ UNCHANGED <<config, pdf, bill_data, page_numbers, page_data_list,
                   validation_results, response>>

NextExtract == SkipPage \/ TakeTable \/ ReturnWithoutTable

SpecExtract == InitExtract /\ [][NextExtract]_vars

\* the pages of the document that have a valid start/end marker pair
PagesWithPair ==
    {i \in 1..Len(pdf.pages) : FindTableBoundariesOrNone(pdf.pages[i]) # <<>>}

\* C21: a page without a valid marker pair is skipped and the loop goes on;
\* the table is taken from the first page that has a pair; the result is the
\* unsuccessful one with the single error 'No table found between specified
\* markers' exactly when no page has a pair.
C21_PagesWithoutMarkersAreSkipped ==
    /\ \A i \in SeqToSet(page_numbers) :
          i \in PagesWithPair => (pc = "extract_done" /\ i = Min(PagesWithPair))
    /\ pc = "extract_loop" => result = NewResults
    /\ pc = "extract_done" =>
          /\ page_numbers = [i \in 1..Len(page_numbers) |-> i]
          /\ IF PagesWithPair = {}
             THEN /\ Len(page_numbers) = Len(pdf.pages)
                  /\ ~result.success
                  /\ result.parsing_errors = <<NoTableFound>>
             ELSE /\ Len(page_numbers) = Min(PagesWithPair)
                  /\ result.parsing_errors # <<NoTableFound>>
                  /\ \A k \in 1..Len(result.extracted_rows) :
                        result.extracted_rows[k].row.quantity = <<Min(PagesWithPair)>>
                  /\ pdf.pages[Min(PagesWithPair)].table = "item_row"
                        => (result.success /\ Len(result.extracted_rows) = 1)

\* the first page has both markers on one line, the table comes from page 2
C21_Witness ==
    /\ pc = "extract_done"
    /\ Len(pdf.pages) = 2
    /\ pdf.pages[1].chars # <<>>
    /\ PagesWithPair = {2}
    /\ result.success
    /\ result.extracted_rows[1].row.quantity = <<2>>

-----------------------------------------------------------------------------
(* TableExtractor: from the grids of a page to its products (lines 325-482   *)
(* and 578-863).  A grid is the DataFrame Camelot returns: its first row is  *)
(* the header row, a cell is its text `s`, what parse_italian_decimal makes  *)
(* of that text `n`, and whether the text is a vendor code ("mma"), one of   *)
(* the known descriptions ("desc") or anything else ("other").               *)

MaxGridRows == 2

Cell(s, n, kind) == [s |-> s, n |-> n, kind |-> kind]

EmptyCell == Cell("", NoNum, "other")

MandatoryRoles == {"product_code_raw", "quantity", "unit_price", "line_total"}

Roles == MandatoryRoles \cup {"customs_code", "unit_measure"}

\* the if/elif chain of lines 369-380 on the lower-cased header text
HeaderRole(header_text) ==
    CASE header_text = "prodotto/var/tg" -> "product_code_raw"
      [] header_text = "voce dog"        -> "customs_code"
      [] header_text = "um"              -> "unit_measure"
      [] header_text = "qtà fatt"        -> "quantity"
      [] header_text = "prezzo unitario" -> "unit_price"
      [] header_text = "importo"         -> "line_total"
      [] OTHER                           -> "none"

\* lines 383-392: cols[k] of the code is column k + 1 here
PositionOf(role) ==
    CASE role = "product_code_raw" -> 1
      [] role = "customs_code"     -> 3
      [] role = "unit_measure"     -> 4
      [] role = "quantity"         -> 5
      [] role = "unit_price"       -> 6
      [] role = "line_total"       -> 7

\* _map_table_columns: per role <<>> (absent or None) or <<column>>
MapTableColumns(df) ==
    LET ncols == Len(df.headers)
        by_header == [r \in Roles |->
            LET at == {i \in 1..ncols : HeaderRole(df.headers[i]) = r}
            IN  IF at = {} THEN <<>> ELSE <<CHOOSE i \in at : \A j \in at : j <= i>>]
    IN  IF \E r \in MandatoryRoles : by_header[r] = <<>>
        THEN [r \in Roles |->
                 IF by_header[r] # <<>> THEN by_header[r]
                 ELSE IF PositionOf(r) <= ncols THEN <<PositionOf(r)>> ELSE <<>>]
        ELSE by_header

\* _validate_required_columns
ValidateRequiredColumns(col_map) == \A r \in MandatoryRoles : col_map[r] # <<>>

\* _extract_product_from_row: <<>> is None
ExtractProductFromRow(row, col_map) ==
    LET code_cell  == row[col_map["product_code_raw"][1]]
        total_cell == row[col_map["line_total"][1]]
    IN  IF code_cell.s = "" \/ code_cell.s = "TOTALE" \/ total_cell.s = "" THEN <<>>
        ELSE <<ProductData(code_cell.s, row[col_map["quantity"][1]].n,
                           row[col_map["unit_price"][1]].n, total_cell.n)>>

\* _extract_products_structured
ExtractProductsStructured(df, col_map) ==
    Flatten([r \in 1..Len(df.rows) |-> ExtractProductFromRow(df.rows[r], col_map)])

\* _parse_row_fields: the column and text of the product identifier of a row
\* (<<>> when has_product_data stays False)
ParseRowFields(row) ==
    LET mma  == {i \in 1..Len(row) : row[i].s # "" /\ row[i].kind = "mma"}
        desc == {i \in 1..Len(row) : row[i].s # "" /\ row[i].kind = "desc"}
    IN  IF mma # {} THEN <<[product_column |-> Min(mma), product_code |-> row[Min(mma)].s]>>
        ELSE IF desc # {}
        THEN <<[product_column |-> Min(desc), product_code |-> row[Min(desc)].s]>>
        ELSE <<>>

\* _extract_numeric_from_row: the positive numeric values of the other
\* columns, left to right
ExtractNumericFromRow(row, exclude_column) ==
    LET cols == SelectSeq([i \in 1..Len(row) |-> i],
                          LAMBDA i : /\ i # exclude_column
                                     /\ row[i].s # ""
                                     /\ row[i].n # <<>>
                                     /\ row[i].n[1] > 0)
    IN  [i \in 1..Len(cols) |-> row[cols[i]].n]

\* _validate_product_data: the total within 5% of quantity x unit_price
ValidateProductData(product) ==
    /\ StrTruthy(product.product_code)
    /\ IsSet(product.quantity) /\ IsSet(product.unit_price) /\ IsSet(product.total_price)
    /\ product.total_price[1] # 0
    /\ Abs(product.quantity[1] * product.unit_price[1] - product.total_price[1] * 1000) * 100
          <= 5 * product.total_price[1] * 1000

\* one row of _extract_products_flexible
ExtractProductFlexible(row) ==
    LET extracted_data == ParseRowFields(row)
    IN  IF extracted_data = <<>> THEN <<>>
        ELSE LET numeric_values ==
                     ExtractNumericFromRow(row, extracted_data[1].product_column)
                 k == Len(numeric_values)
             IN  IF k < 3 THEN <<>>
                 ELSE LET product == ProductData(extracted_data[1].product_code,
                                         numeric_values[k - 2], numeric_values[k - 1],
                                         numeric_values[k])
                      IN  IF ValidateProductData(product) THEN <<product>> ELSE <<>>

ExtractProductsFlexible(df) ==
    Flatten([r \in 1..Len(df.rows) |-> ExtractProductFlexible(df.rows[r])])

\* _extract_products_from_table
ExtractProductsFromTable(df, col_map) ==
    IF df.rows = <<>> THEN <<>>
    ELSE IF ValidateRequiredColumns(col_map)
    THEN ExtractProductsStructured(df, col_map)
    ELSE ExtractProductsFlexible(df)

\* _process_tables_to_products
ProcessTablesToProducts(tables) ==
    Flatten([t \in 1..Len(tables) |->
                ExtractProductsFromTable(tables[t], MapTableColumns(tables[t]))])

\* the two layouts of the grids: the seven printed columns, and a narrow grid
\* of four
WideHeaders ==
    <<"prodotto/var/tg", "descrizione", "voce dog", "um", "qtà fatt",
      "prezzo unitario", "importo">>

NarrowHeaders == <<"prodotto/var/tg", "qtà fatt", "prezzo unitario", "importo">>

\* the header rows: each header printed as expected or not recognisable
HeaderRows ==
    UNION {{[i \in 1..Len(h) |-> IF i \in lost THEN "" ELSE h[i]] :
              lost \in SUBSET (1..Len(h))} : h \in {WideHeaders, NarrowHeaders}}

\* the cells of a row, by the role of the column they are printed in
RowCells(kind) ==
    [r \in Roles \cup {"description"} |->
        CASE r = "product_code_raw" ->
                 IF kind = "total" THEN Cell("TOTALE", NoNum, "other")
                 ELSE IF kind = "blank" THEN EmptyCell
                 ELSE Cell("MMA001", Num(1000), "mma")
          [] r = "description" ->
                 IF kind \in {"total", "blank"} THEN EmptyCell
                 ELSE Cell("Tessuto", NoNum, "desc")
          [] r = "customs_code" ->
                 IF kind \in {"total", "blank"} THEN EmptyCell
                 ELSE Cell("5806", Num(5806000), "other")
          [] r = "unit_measure" ->
                 IF kind \in {"total", "blank"} THEN EmptyCell
                 ELSE Cell("MT", NoNum, "other")
          [] r = "quantity" ->
                 IF kind \in {"total", "blank"} THEN EmptyCell
                 ELSE Cell("2", Num(2000), "other")
          [] r = "unit_price" ->
                 IF kind \in {"total", "blank"} THEN EmptyCell
                 ELSE Cell("1,500", Num(1500), "other")
          [] r = "line_total" ->
                 IF kind = "blank" \/ kind = "no_total" THEN EmptyCell
                 ELSE IF kind = "off" THEN Cell("3,500", Num(3500), "other")
                 ELSE Cell("3,000", Num(3000), "other")]

RowKinds == {"item", "off", "no_total", "total", "blank"}

\* the row of a kind under the headers h (h has the layout's length)
GridRow(h, kind) ==
    LET layout == IF Len(h) = 7 THEN WideHeaders ELSE NarrowHeaders
    IN  [i \in 1..Len(h) |->
            RowCells(kind)[IF layout[i] = "descrizione" THEN "description"
                           ELSE HeaderRole(layout[i])]]

Grids ==
    UNION {{[headers |-> h, rows |-> [i \in 1..n |-> GridRow(h, k[i])]] :
              h \in HeaderRows, k \in [1..n -> RowKinds]} : n \in 0..MaxGridRows}

InitGrid ==
    /\ pc = "grid_start"
    /\ config = DefaultConfig
    /\ pdf \in {[tables |-> <<g>>] : g \in Grids}
    /\ bill_data = <<>>
    /\ page_numbers = <<0>>
    /\ page_data_list = <<>>
    /\ validation_results = <<>>
    /\ result = <<>>
    /\ response = <<>>

\* extract_page_data on a page whose text prints no delivery header
ExtractGridPage ==
    /\ pc = "grid_start"
    /\ page_data_list' =
          <<ExtractPageData(0, TPlain, ProcessTablesToProducts(pdf.tables), "none")>>
    /\ pc' = "grid_done"
    /\ UNCHANGED <<config, pdf, bill_data, page_numbers, validation_results,
                   result, response>>

NextGrid == ExtractGridPage

SpecGrid == InitGrid /\ [][NextGrid]_vars

\* a mandatory role of the grid is unmapped after the positional fallback
MandatoryRoleUnmapped == ~ValidateRequiredColumns(MapTableColumns(pdf.tables[1]))

\* C22: when one of the mandatory roles (product code, quantity, unit price,
\* line total) is still unmapped after the positional fallback, the grid is
\* rejected: no row of it becomes a line item and a page-local error is
\* recorded for the page.
C22_UnmappedGridRejected ==
    (pc = "grid_done" /\ MandatoryRoleUnmapped) =>
        /\ page_data_list[1].products = <<>>
        /\ page_data_list[1].errors # <<>>

-----------------------------------------------------------------------------
(* The consistency check of one item (specification SpecValidate) *)

\* the errors _validate_products_consistency writes
ConsistencyKinds ==
    {"Invalid numeric fields", "Price calculation mismatch",
     "Cannot parse pricing fields for calculation", "Missing critical pricing fields"}

\* item i produced no consistency error
NoConsistencyError(i) ==
    ~\E e \in SeqToSet(Outcome.validation_errors) :
        e.kind \in ConsistencyKinds /\ e.product = i

\* quantity, unit price and total are non-negative numbers and
\* |quantity x unit_price - total| <= max(0.01, 0.001 x total), in millionths
ArithmeticallyConsistent(p) ==
    /\ IsSet(p.quantity) /\ IsSet(p.unit_price) /\ IsSet(p.total_price)
    /\ p.quantity[1] >= 0 /\ p.unit_price[1] >= 0 /\ p.total_price[1] >= 0
    /\ Abs(p.quantity[1] * p.unit_price[1] - p.total_price[1] * 1000)
          <= (IF p.total_price[1] > 10000 THEN p.total_price[1] ELSE 10000)

\* C23: an item counts toward the consistency score, and produces no
\* validation error of the consistency check, exactly when its quantity, unit
\* price and total are parseable non-negative numbers and
\* |quantity x unit_price - total| <= max(0.01, 0.001 x total); the
\* consistency score is that count divided by the item count.
C23_ConsistentItemsCounted ==
    (Validated /\ config.enable_ocr_validation) =>
        /\ \A i \in 1..Len(ValidatedProducts) :
              NoConsistencyError(i) <=> ArithmeticallyConsistent(ValidatedProducts[i])
        /\ LET n == IF ValidatedProducts = <<>> THEN 1 ELSE Len(ValidatedProducts)
               count == Cardinality({i \in 1..Len(ValidatedProducts) :
                                        ArithmeticallyConsistent(ValidatedProducts[i])})
               numerator == 600 * count + 400 * Cardinality(ItemsInText)
                            - n * Min({500, 200 * Len(Outcome.validation_errors)})
           IN  Outcome.confidence_score =
                  RoundThousandths(IF numerator < 0 THEN 0 ELSE numerator, n)

-----------------------------------------------------------------------------
(* ResponseCompiler._compile_delivery_data in its two passes: the cross-page *)
(* completion (lines 66-103, 122-193) and the removal of duplicates          *)
(* (lines 105-120)                                                           *)

MaxMergePages == 3

\* a header whose model line is printed and whose product name is cut off
THalf ==
    Text(1000, <<Ddt(50, "MS5LH0002", "3635", "MMM25.22", None)>>,
         CodeOccurrences, NoFooter, NoCompletion)

\* a page that begins with a model line and no product name
TModelOnly ==
    Text(1000, <<>>, CodeOccurrences, NoFooter,
         [model_number |-> "MMM25.29", product_name |-> None])

MergeTexts == { EmptyText, TPlain, TOne, TTwo, THalf, TModelOnly }

MergePageLists ==
    UNION {{[i \in 1..n |-> ExtractPageData(i - 1, f[i].text, f[i].tables, "none")] :
              f \in [1..n -> [text : MergeTexts, tables : {<<>>, <<P1>>}]]} :
           n \in 0..MaxMergePages}

\* lines 70-100: the deliveries collected from the pages, in document order
CollectDeliveries(pages) ==
    LET heap == [p \in 1..Len(pages) |-> PageDeliveries(pages[p])]
        refs == Flatten([p \in 1..Len(pages) |->
                            [j \in 1..Len(heap[p]) |-> <<p, j>>]])
    IN  IF refs = <<>> THEN <<MinimalDelivery(pages)>>
        ELSE [i \in 1..Len(refs) |-> heap[refs[i][1]][refs[i][2]]]

\* line 103: the list _merge_cross_page_deliveries returns
MergedDeliveries(pages) ==
    LET heap == [p \in 1..Len(pages) |-> PageDeliveries(pages[p])]
        refs == Flatten([p \in 1..Len(pages) |->
                            [j \in 1..Len(heap[p]) |-> <<p, j>>]])
    IN  IF refs = <<>> THEN <<MinimalDelivery(pages)>>
        ELSE MergeCrossPageDeliveries(heap, pages, refs)

InitMerge ==
    /\ pc = "merge_start"
    /\ config = DefaultConfig
    /\ pdf = <<>>
    /\ bill_data = <<>>
    /\ page_data_list \in MergePageLists
    /\ page_numbers = [i \in 1..Len(page_data_list) |-> i - 1]
    /\ validation_results = <<>>
    /\ result = <<>>
    /\ response = <<>>

\* lines 66-103: result holds the collected deliveries as they were before
\* the completion pass and the list the pass returned
MergeCrossPage ==
    /\ pc = "merge_start"
    /\ result' = [deliveries |-> CollectDeliveries(page_data_list),
                  merged |-> MergedDeliveries(page_data_list)]
    /\ pc' = "merged"
    /\ UNCHANGED <<config, pdf, bill_data, page_numbers, page_data_list,
                   validation_results, response>>

\* lines 105-120: response holds the list _compile_delivery_data returns
RemoveDuplicateDeliveries ==
    /\ pc = "merged"
    /\ response' = RemoveDuplicates(result.merged, <<>>)
    /\ pc' = "deduplicated"
    /\ UNCHANGED <<config, pdf, bill_data, page_numbers, page_data_list,
                   validation_results, result>>

NextMerge == MergeCrossPage \/ RemoveDuplicateDeliveries

SpecMerge == InitMerge /\ [][NextMerge]_vars

\* `after` is `before` with nothing but missing fields filled
OnlyMissingFilled(before, after) ==
    /\ after.ddt_series = before.ddt_series
    /\ after.ddt_number = before.ddt_number
    /\ after.products = before.products
    /\ StrTruthy(before.model_number) => after.model_number = before.model_number
    /\ StrTruthy(before.product_name) => after.product_name = before.product_name
    /\ (StrTruthy(before.model_number) /\ StrTruthy(before.product_name))
          => after = before

\* C24: the cross-page backfill only fills fields that were missing: for
\* every delivery group a model or product field that already has a value,
\* the (series, number) pair and the owned line items are unchanged by it,
\* and a group that already has both model number and product name is not
\* modified at all.
C24_BackfillOnlyFillsMissing ==
    pc \in {"merged", "deduplicated"} =>
        /\ Len(result.merged) = Len(result.deliveries)
        /\ \A i \in 1..Len(result.merged) :
              \E j \in 1..Len(result.deliveries) :
                 OnlyMissingFilled(result.deliveries[j], result.merged[i])
        /\ \A j \in 1..Len(result.deliveries) :
              \E i \in 1..Len(result.merged) :
                 OnlyMissingFilled(result.deliveries[j], result.merged[i])

\* the (series, number) keys of the collected deliveries, in order of first
\* appearance in the document
RECURSIVE KeysInOrder(_, _)
KeysInOrder(deliveries, seen) ==
    IF deliveries = <<>> THEN <<>>
    ELSE IF DdtKey(Head(deliveries)) \in seen THEN KeysInOrder(Tail(deliveries), seen)
    ELSE <<DdtKey(Head(deliveries))>>
         \o KeysInOrder(Tail(deliveries), seen \cup {DdtKey(Head(deliveries))})

\* the items of the collected deliveries of one key, in document order
ItemsOfKey(deliveries, key) ==
    Flatten([i \in 1..Len(deliveries) |->
                IF DdtKey(deliveries[i]) = key THEN deliveries[i].products ELSE <<>>])

\* C29: deduplication neither loses nor duplicates line items: the merged
\* group owns the concatenation of the items of all its duplicates in
\* document order, and the final groups are listed in order of first
\* appearance in the document, whether or not some groups were incomplete
\* before backfill.
C29_MergeKeepsDocumentOrder ==
    pc = "deduplicated" =>
        /\ [g \in 1..Len(response) |-> DdtKey(response[g])]
              = KeysInOrder(result.deliveries, {})
        /\ \A g \in 1..Len(response) :
              response[g].products = ItemsOfKey(result.deliveries, DdtKey(response[g]))

-----------------------------------------------------------------------------
(* The checksum against a grand total found in the footer (specification Spec) *)

\* the grand total in the header of the compiled result
CompiledTotal == result.bill_data[1].total_amount

\* C25: if the declared grand total is absent from the header metadata but is
\* found in the footer text of one of the last two pages, the checksum outcome
\* is the comparison of the line-total sum with that back-filled total and no
\* 'no total amount found' error is recorded; equivalently, in every compiled
\* result with checksum validation enabled and a grand total in its header,
\* validation_checksum_ok agrees with that total.
C25_ChecksumUsesBackfilledTotal ==
    (/\ Compiled
     /\ config.validate_checksums
     /\ result.bill_data # <<>>
     /\ Truthy(CompiledTotal)) =>
        /\ result.validation_checksum_ok
              <=> Abs(CompiledTotal[1] - CalculatedTotal(result.products)) <= 10
        /\ \A e \in SeqToSet(result.parsing_errors) :
              e.kind # "No total amount found for checksum validation"

-----------------------------------------------------------------------------
(* C26: corrected items in the compiled result *)

\* the pages whose validation outcome is invalid and carries corrected items
CorrectedPages ==
    {i \in 1..Len(page_data_list) :
        /\ i <= Len(validation_results)
        /\ ~validation_results[i].is_valid
        /\ validation_results[i].corrected_data # <<>>}

\* the corrected items of page i
CorrectedItemsOf(i) == SeqToSet(validation_results[i].corrected_data[1].corrected_products)

\* C26: when a page's validation outcome is invalid and carries corrected
\* items, every item of that page in the compiled result is a corrected item:
\* in the document-wide product list and in the product lists of the delivery
\* groups of the result and of the serialized response.
C26_CorrectedItemsUsedEverywhere ==
    (Compiled /\ response = ConvertToLaravelFormat(result)) =>
        \A i \in CorrectedPages :
            /\ \A k \in 1..Len(result.products) :
                  FromPage(result.products[k], i) => result.products[k] \in CorrectedItemsOf(i)
            /\ \A g \in 1..Len(result.delivery_data) :
                  \A k \in 1..Len(result.delivery_data[g].products) :
                      FromPage(result.delivery_data[g].products[k], i)
                          => result.delivery_data[g].products[k] \in CorrectedItemsOf(i)
            /\ \A g \in 1..Len(response.data.deliveries) :
                  \A k \in 1..Len(response.data.deliveries[g].products) :
                      FromPage(response.data.deliveries[g].products[k], i)
                          => response.data.deliveries[g].products[k] \in CorrectedItemsOf(i)

-----------------------------------------------------------------------------
(* TableExtractor._extract_all_deliveries_from_page and
   _extract_delivery_from_context on a page text made of fragments
   (table_extractor.py 182-289) *)

\* a page text is a sequence of fragments of TokenLen characters each; a
\* fragment is one match of one of the patterns, or text no pattern matches
MaxTokens == 4
TokenLen == 100

\* line 214: characters of context before the anchor
LookBehind == 200
\* line 215: characters of context after the start of the anchor
LookAhead == 1500

Token(kind, val) == [kind |-> kind, val |-> val]

\* "DDT interno MS5LH0002 3635", "Del: 19-05-2025", "Causale\nCLV",
\* "MMM25.29 / MS5CE0002 1394", "Tessuto: 100% Cotone\nCAMICIA\nUOMO"
Tokens ==
    {Token("ddt", "3635"), Token("ddt", "3636"),
     Token("date", "19-05-2025"), Token("date", "20-05-2025"),
     Token("reason", "CLV"),
     Token("model", "MMM25.29"), Token("model", "MMM25.30"),
     Token("fabric", "CAMICIA"),
     Token("other", "")}

TokenTexts == UNION {[1..n -> Tokens] : n \in 0..MaxTokens}

\* lines 200-207: the anchors found, (series, number, position), in text order
FoundDdts(page_text) ==
    LET at == [i \in 1..Len(page_text) |->
                  [ddt_series |-> "MS5LH0002", ddt_number |-> page_text[i].val,
                   kind |-> page_text[i].kind, position |-> (i - 1) * TokenLen]]
    IN  SelectSeq(at, LAMBDA f : f.kind = "ddt")

\* lines 214-216: page_text[start_pos:end_pos]; a fragment cut by the slice
\* matches nothing; each fragment carries its offset in the slice
SurroundingText(page_text, position) ==
    LET start_pos == IF position - LookBehind > 0 THEN position - LookBehind ELSE 0
        text_len == Len(page_text) * TokenLen
        end_pos == IF position + LookAhead < text_len THEN position + LookAhead ELSE text_len
        at == [i \in 1..Len(page_text) |->
                  [kind |-> page_text[i].kind, val |-> page_text[i].val,
                   offset |-> (i - 1) * TokenLen - start_pos,
                   whole |-> (i - 1) * TokenLen >= start_pos /\ i * TokenLen <= end_pos]]
    IN  SelectSeq(at, LAMBDA f : f.whole)

\* re.search: the value of the first fragment of that kind, or None
SearchFirst(kind, text) ==
    LET m == SelectSeq(text, LAMBDA f : f.kind = kind)
    IN  IF m = <<>> THEN None ELSE m[1].val

\* lines 237-289
ExtractDeliveryFromContext(context_text, ddt_series, ddt_number, ddt_position) ==
    LET text_after_ddt == IF ddt_position > 0
                          THEN SelectSeq(context_text, LAMBDA f : f.offset >= ddt_position)
                          ELSE context_text
    IN  [ddt_series |-> ddt_series, ddt_number |-> ddt_number,
         ddt_date |-> SearchFirst("date", context_text),
         ddt_reason |-> SearchFirst("reason", context_text),
         model_number |-> SearchFirst("model", text_after_ddt),
         product_name |-> SearchFirst("fabric", text_after_ddt)]

\* lines 211-234: one candidate per anchor, then the first of each key
DeliverySections(page_text) ==
    LET found_ddts == FoundDdts(page_text)
        deliveries == [k \in 1..Len(found_ddts) |->
            LET position == found_ddts[k].position
                start_pos == IF position - LookBehind > 0 THEN position - LookBehind ELSE 0
            IN  ExtractDeliveryFromContext(SurroundingText(page_text, position),
                                           found_ddts[k].ddt_series,
                                           found_ddts[k].ddt_number,
                                           position - start_pos)]
    IN  UniqueByKey(deliveries, {})

InitContext ==
    /\ pc = "context_start"
    /\ config = DefaultConfig
    /\ pdf \in {[text |-> t] : t \in TokenTexts}
    /\ bill_data = <<>>
    /\ page_numbers = <<0>>
    /\ page_data_list = <<>>
    /\ validation_results = <<>>
    /\ result = <<>>
    /\ response = <<>>

\* _extract_all_deliveries_from_page(page_text): result holds the list returned
ExtractSections ==
    /\ pc = "context_start"
    /\ result' = DeliverySections(pdf.text)
    /\ pc' = "context_done"
    /\ UNCHANGED <<config, pdf, bill_data, page_numbers, page_data_list,
                   validation_results, response>>

NextContext == ExtractSections

SpecContext == InitContext /\ [][NextContext]_vars

\* the index in the page text of the first anchor of a delivery group
AnchorOf(d) == Min({i \in 1..Len(pdf.text) :
                       pdf.text[i].kind = "ddt" /\ pdf.text[i].val = d.ddt_number})

\* a field value comes from a fragment of that kind located after the anchor
FromAfterAnchor(d, value, kind) ==
    value # None =>
        \E i \in (AnchorOf(d) + 1)..Len(pdf.text) :
            pdf.text[i].kind = kind /\ pdf.text[i].val = value

\* C27: every field of a delivery group candidate other than its (series,
\* number) pair - date, reason code, model/order identifiers, product name and
\* properties - is taken from text located after that candidate's anchor.
C27_FieldsComeFromAfterAnchor ==
    pc = "context_done" =>
        \A k \in 1..Len(result) :
            /\ FromAfterAnchor(result[k], result[k].ddt_date, "date")
            /\ FromAfterAnchor(result[k], result[k].ddt_reason, "reason")
            /\ FromAfterAnchor(result[k], result[k].model_number, "model")
            /\ FromAfterAnchor(result[k], result[k].product_name, "fabric")

-----------------------------------------------------------------------------
(* C28: the product lists of a page's delivery groups *)

\* the indices of group j's product list that hold line item i of the page
PlacesIn(j, i) ==
    {k \in 1..Len(AssocPage.all_deliveries[j].products) :
        AssocPage.all_deliveries[j].products[k] = AssocPage.products[i]}

\* the index in the page's item list of the k-th product of group j
PageIndexOf(j, k) ==
    CHOOSE i \in 1..Len(AssocPage.products) :
        AssocPage.products[i].pid = AssocPage.all_deliveries[j].products[k].pid

\* C28: on a page with at least one delivery group and at least one line item,
\* the groups' product lists partition the page's line items: each item is in
\* exactly one group's list exactly once, each list keeps the page's item
\* order, and with exactly one group its list equals the page's item list.
C28_GroupListsPartitionItems ==
    (/\ pc = "page_done"
     /\ AssocPage.all_deliveries # <<>>
     /\ AssocPage.products # <<>>) =>
        /\ \A i \in 1..Len(AssocPage.products) :
              \E j \in 1..Len(AssocPage.all_deliveries) :
                  /\ Cardinality(PlacesIn(j, i)) = 1
                  /\ \A h \in 1..Len(AssocPage.all_deliveries) :
                        h # j => PlacesIn(h, i) = {}
        /\ \A j \in 1..Len(AssocPage.all_deliveries) :
              LET list == AssocPage.all_deliveries[j].products
              IN  /\ \A k \in 1..Len(list) :
                        \E i \in 1..Len(AssocPage.products) : list[k] = AssocPage.products[i]
                  /\ \A k, l \in 1..Len(list) :
                        k < l => PageIndexOf(j, k) < PageIndexOf(j, l)
        /\ Len(AssocPage.all_deliveries) = 1
              => AssocPage.all_deliveries[1].products = AssocPage.products

\* two groups and two items, one item in each group's list
C28_Witness ==
    /\ pc = "page_done"
    /\ Len(AssocPage.all_deliveries) = 2
    /\ Len(AssocPage.products) = 2
    /\ AssocPage.all_deliveries[1].products = <<AssocPage.products[2]>>
    /\ AssocPage.all_deliveries[2].products = <<AssocPage.products[1]>>

-----------------------------------------------------------------------------
(* C30: what _merge_paired_rows emits *)

\* C30: for every row sequence, _merge_paired_rows emits each primary row
\* exactly once and in input order, never emits more rows than it received,
\* never overwrites a non-empty field of a primary row, and leaves the input
\* rows unmodified.
C30_MergeEmitsPrimaryRowsOnce ==
    pc = "rows_done" =>
        /\ \A i \in 1..Len(pdf.raw_rows) :
              IsPrimary(i) => Cardinality(ItemsOf(i)) = 1
        /\ \A k, l \in 1..Len(result) :
              (k < l /\ IsPrimary(result[k].src) /\ IsPrimary(result[l].src))
                  => result[k].src < result[l].src
        /\ Len(result) <= Len(pdf.raw_rows)
        /\ \A i \in 1..Len(pdf.raw_rows) :
              IsPrimary(i) =>
                  \A k \in ItemsOf(i) :
                      /\ result[k].row.product_code = pdf.raw_rows[i].product_code
                      /\ \A f \in RowFields :
                            pdf.raw_rows[i][f] # <<>>
                                => result[k].row[f] = pdf.raw_rows[i][f]
        /\ response = pdf.raw_rows

\* two primary rows after a row of numbers: the first primary row keeps its
\* own quantity and takes the unit price it lacks from the row before it
C30_Witness ==
    /\ pc = "rows_done"
    /\ Len(pdf.raw_rows) = 3
    /\ IsSupplementary(1) /\ IsPrimary(2) /\ IsPrimary(3)
    /\ pdf.raw_rows[1].quantity # <<>> /\ pdf.raw_rows[1].unit_price # <<>>
    /\ pdf.raw_rows[2].quantity # <<>> /\ pdf.raw_rows[2].unit_price = <<>>
    /\ Len(result) = 2
    /\ result[1].src = 2 /\ result[2].src = 3
    /\ result[1].row.quantity = pdf.raw_rows[2].quantity
    /\ result[1].row.unit_price = pdf.raw_rows[1].unit_price
    /\ response = pdf.raw_rows
====
